---- MODULE Spec2Model ----
(***************************************************************************)
(* Parallel MCTS executor of omok-ai (alpha-zero/src/                      *)
(* parallel_mcts_executor.rs) over the omok rules engine                   *)
(* (environment/src/lib.rs).                                               *)
(*                                                                         *)
(* The board is scaled from 19x19 to BOARD_SIZE x BOARD_SIZE; the rules    *)
(* (five in a row, counted up to five cells on each side of the placed     *)
(* stone) are those of the source.  The search-tree engine (crate mcts:    *)
(* select_leaf, expand, propagate) and BoardState are modelled from the    *)
(* specification text; everything else is modelled from the source.        *)
(***************************************************************************)
EXTENDS Integers, Sequences, FiniteSets, TLC

(***************************************************************************)
(* Bounds of the model.                                                    *)
(***************************************************************************)
NumTrees == 2        \* length of mcts_list
MaxCount == 2        \* largest total simulation count (argument count)
MaxBatch == 3        \* largest batch_size argument
PlayRows == 1        \* rows of the board, from the top, a game places stones in
MaxMoves == 6        \* largest number of placements of a game
NumWorkers == 2      \* workers that share one tree
MaxAttempts == 3     \* attempts, in all, of the workers that share a tree
EvalKinds == 2       \* number of distinct evaluator output tables
MaxMemory == 4       \* largest length of the replay memory that is told apart
MaxEpisodes == 1     \* largest count given to perform_episodes
MaxPlies == 9        \* largest number of placements of a game of the training loops
MaxPlayed == 1       \* largest played_turn_count that is told apart

(***************************************************************************)
(* environment/src/lib.rs                                                  *)
(***************************************************************************)
BOARD_SIZE == 6
SERIAL_STONE_COUNT == 5

Cells == 0 .. (BOARD_SIZE * BOARD_SIZE - 1)

Turn == {"Black", "White"}

opponent(turn) == IF turn = "Black" THEN "White" ELSE "Black"

\* Environment::new
NewEnvironment ==
    [turn |-> "Black",
     board |-> [i \in Cells |-> 0],
     legal_moves |-> [i \in Cells |-> TRUE],
     legal_move_count |-> BOARD_SIZE * BOARD_SIZE]

\* Environment::count_serial_stones with offset = k*(dx,dy), k = 1..5:
\* the number of consecutive cells, walking away from index, that are on the
\* board, not empty and of the colour of turn.
RECURSIVE count_from(_, _, _, _, _, _)
count_from(board, turn, index, dx, dy, k) ==
    IF k > 5 THEN 0
    ELSE LET x == (index % BOARD_SIZE) + k * dx
             y == (index \div BOARD_SIZE) + k * dy
         IN  IF x < 0 \/ BOARD_SIZE <= x \/ y < 0 \/ BOARD_SIZE <= y THEN 0
             ELSE LET stone == board[y * BOARD_SIZE + x]
                  IN  IF stone = 0 THEN 0
                      ELSE IF (0 < stone) # (turn = "Black") THEN 0
                      ELSE 1 + count_from(board, turn, index, dx, dy, k + 1)

count_serial_stones(board, turn, index, dx, dy) ==
    count_from(board, turn, index, dx, dy, 1)

horizontal_count(board, turn, index) ==
    1 + count_serial_stones(board, turn, index, -1, 0)
      + count_serial_stones(board, turn, index, 1, 0)

vertical_count(board, turn, index) ==
    1 + count_serial_stones(board, turn, index, 0, -1)
      + count_serial_stones(board, turn, index, 0, 1)

diagonal_lt_rb_count(board, turn, index) ==
    1 + count_serial_stones(board, turn, index, -1, -1)
      + count_serial_stones(board, turn, index, 1, 1)

\* diagonal_lb_rt_count with the offsets of the other diagonal.
diagonal_lb_rt_as_lt_rb(board, turn, index) ==
    1 + count_serial_stones(board, turn, index, -1, -1)
      + count_serial_stones(board, turn, index, 1, 1)

diagonal_lb_rt_count(board, turn, index) ==
    1 + count_serial_stones(board, turn, index, -1, 1)
      + count_serial_stones(board, turn, index, 1, -1)

\* game_status with a line of SERIAL_STONE_COUNT or more stones taken for a
\* win (>= for the == of lines 88-91).
game_status_or_more(board, turn, index, legal_move_count) ==
    IF \/ horizontal_count(board, turn, index) >= SERIAL_STONE_COUNT
       \/ vertical_count(board, turn, index) >= SERIAL_STONE_COUNT
       \/ diagonal_lt_rb_count(board, turn, index) >= SERIAL_STONE_COUNT
       \/ diagonal_lb_rt_count(board, turn, index) >= SERIAL_STONE_COUNT
    THEN IF turn = "Black" THEN "BlackWin" ELSE "WhiteWin"
    ELSE IF legal_move_count = 0 THEN "Draw"
    ELSE "InProgress"

\* The status place_stone returns, computed on the board after the stone of
\* turn was written at index and legal_move_count was decremented.
game_status(board, turn, index, legal_move_count) ==
    IF \/ horizontal_count(board, turn, index) = SERIAL_STONE_COUNT
       \/ vertical_count(board, turn, index) = SERIAL_STONE_COUNT
       \/ diagonal_lt_rb_count(board, turn, index) = SERIAL_STONE_COUNT
       \/ diagonal_lb_rt_count(board, turn, index) = SERIAL_STONE_COUNT
    THEN IF turn = "Black" THEN "BlackWin" ELSE "WhiteWin"
    ELSE IF legal_move_count = 0 THEN "Draw"
    ELSE "InProgress"

\* place_stone that leaves the turn with the mover.
place_stone_same_turn(env, index) ==
    LET board == [env.board EXCEPT ![index] = IF env.turn = "Black" THEN 1 ELSE -1]
        count == env.legal_move_count - 1
    IN  [env |-> [turn |-> env.turn,
                  board |-> board,
                  legal_moves |-> [env.legal_moves EXCEPT ![index] = FALSE],
                  legal_move_count |-> count],
         status |-> game_status(board, env.turn, index, count)]

\* place_stone without the decrement of legal_move_count (line 73).
place_stone_keeps_count(env, index) ==
    LET board == [env.board EXCEPT ![index] = IF env.turn = "Black" THEN 1 ELSE -1]
        count == env.legal_move_count
    IN  [env |-> [turn |-> opponent(env.turn),
                  board |-> board,
                  legal_moves |-> [env.legal_moves EXCEPT ![index] = FALSE],
                  legal_move_count |-> count],
         status |-> game_status(board, env.turn, index, count)]

\* Environment::place_stone: the environment after the call and the status
\* it returns.
place_stone(env, index) ==
    LET board == [env.board EXCEPT ![index] = IF env.turn = "Black" THEN 1 ELSE -1]
        count == env.legal_move_count - 1
    IN  [env |-> [turn |-> opponent(env.turn),
                  board |-> board,
                  legal_moves |-> [env.legal_moves EXCEPT ![index] = FALSE],
                  legal_move_count |-> count],
         status |-> game_status(board, env.turn, index, count)]

(***************************************************************************)
(* Positions the trees are rooted at.  Root3Board is the board of a game   *)
(* in progress with three empty cells (1, 4 and 28), 17 black and 16 white *)
(* stones, White to move, no line of five on it.                           *)
(***************************************************************************)
Root3Board ==
    << 1,  0, -1,  1,  0,  1,
       1,  1, -1, -1,  1,  1,
      -1, -1, -1, -1,  1, -1,
       1, -1,  1,  1, -1, -1,
      -1,  1,  1,  1,  0,  1,
       1, -1,  1, -1, -1, -1 >>

EnvOfBoard(b, turn) ==
    [turn |-> turn,
     board |-> [i \in Cells |-> b[i + 1]],
     legal_moves |-> [i \in Cells |-> b[i + 1] = 0],
     legal_move_count |-> Cardinality({i \in Cells : b[i + 1] = 0})]

Root3Env == EnvOfBoard(Root3Board, "White")

\* Root3Env after White 1: two legal cells, Black to move.  Black 28 wins;
\* Black 4 leaves the game in progress and White 28 then draws it.
Root2Env == place_stone(Root3Env, 1).env

\* Root3Env after White 28, Black 1: one legal cell (4), White to move, and
\* a white stone there completes five.
RootWin1Env == place_stone(place_stone(Root3Env, 28).env, 1).env

\* A position with two legal cells (2 and 35), 17 black and 17 white
\* stones, Black to move, no line of five on it.  A black stone on 2
\* completes five in the top row; after Black 35 a white stone on 2
\* completes five in the third column.
RootBothBoard ==
    <<  1,  1,  0,  1,  1, -1,
        1,  1, -1, -1, -1, -1,
       -1, -1, -1,  1,  1,  1,
       -1, -1, -1, -1,  1, -1,
        1, -1, -1,  1,  1,  1,
        1,  1,  1, -1, -1,  0 >>

RootBothEnv == EnvOfBoard(RootBothBoard, "Black")

\* mcts_list: the first tree is rooted at Root2Env, the others at
\* RootWin1Env.
RootEnvOf(t) == IF t = 1 THEN Root2Env ELSE RootWin1Env

(***************************************************************************)
(* Option values: None is the empty tuple, Some(v) the tuple <<v>>.        *)
(***************************************************************************)
None == << >>
Some(v) == << v >>
is_some(o) == Len(o) = 1
unwrap(o) == o[1]
unwrap_or(o, d) == IF Len(o) = 1 THEN o[1] ELSE d

(***************************************************************************)
(* f32 quantities that are not whole numbers (priors, policies) are kept   *)
(* as exact fractions <<numerator, denominator>>, denominator > 0.         *)
(***************************************************************************)
Frac(a, b) == << a, b >>

(***************************************************************************)
(* BoardState (crate alpha-zero) and the State contract.                   *)
(***************************************************************************)
\* The placeholder policy of lines 111-125: 1 on every empty cell of env,
\* 0 elsewhere, divided by the sum when the sum is not zero.
placeholder_policy(env) ==
    LET sum == Cardinality({a \in Cells : env.board[a] = 0})
    IN  [a \in Cells |->
            IF env.board[a] # 0 THEN Frac(0, 1)
            ELSE IF 1 <= sum THEN Frac(1, sum) ELSE Frac(1, 1)]

\* terminal_reward of lines 101-106.
terminal_reward_of(status) ==
    CASE status = "InProgress" -> None
      [] status = "Draw" -> Some(0)
      [] status = "BlackWin" -> Some(1)
      [] status = "WhiteWin" -> Some(1)

\* The BoardState built at lines 131-136.
BoardState(env, status) ==
    [env |-> env,
     status |-> status,
     policy |-> placeholder_policy(env),
     z |-> unwrap_or(terminal_reward_of(status), 0)]

is_terminal(state) == state.status # "InProgress"

is_available_action(state, action) == state.env.legal_moves[action]

(***************************************************************************)
(* Search tree (crate mcts).  A tree is the sequence of its nodes in order *)
(* of creation; a node is named by its index, the root is node 1 and has   *)
(* parent 0 and action None.                                               *)
(***************************************************************************)
RootNode(env) ==
    [parent |-> 0, action |-> None, state |-> BoardState(env, "InProgress"),
     p |-> Frac(0, 1), n |-> 0, w |-> 0, v_loss |-> 0, children |-> << >>]

NodeIds(tree) == 1 .. Len(tree)

\* Sign of A + B * sqrt(N) for integers A, B and N >= 0.
SignSqrt(A, B, N) ==
    LET aa == A * A
        bb == B * B * N
    IN  IF A >= 0 /\ B >= 0 THEN (IF aa + bb = 0 THEN 0 ELSE 1)
        ELSE IF A <= 0 /\ B <= 0 THEN (IF aa + bb = 0 THEN 0 ELSE -1)
        ELSE IF A > 0 THEN (IF aa > bb THEN 1 ELSE IF aa = bb THEN 0 ELSE -1)
        ELSE (IF bb > aa THEN 1 ELSE IF aa = bb THEN 0 ELSE -1)

\* compute_ucb_1(parent_n, a, C_PUCT) compared with compute_ucb_1(parent_n,
\* b, C_PUCT), C_PUCT = 1: -1, 0 or 1 as the score of a is less than, equal
\* to or greater than the score of b.  The score is
\* w / (n + EPSILON) + p * sqrt(parent_n) / (1 + n); EPSILON only keeps the
\* division defined at n = 0, where w = 0.
compare_ucb_1(parent_n, a, b) ==
    LET qd_a == IF a.n = 0 THEN 1 ELSE a.n
        qd_b == IF b.n = 0 THEN 1 ELSE b.n
        bd_a == a.p[2] * (1 + a.n)
        bd_b == b.p[2] * (1 + b.n)
        A == a.w * qd_b - b.w * qd_a
        B == a.p[1] * bd_b - b.p[1] * bd_a
    IN  SignSqrt(A * (bd_a * bd_b), B * (qd_a * qd_b), parent_n)

\* selector with the first of the maximal children returned instead of the
\* last (what Iterator::min_by does for a minimum).
selector_first(tree, id) ==
    LET children == tree[id].children
        better(i, j) == compare_ucb_1(tree[id].n, tree[children[i]], tree[children[j]])
    IN  CHOOSE i \in 1 .. Len(children) :
            /\ \A j \in 1 .. Len(children) : j < i => better(j, i) < 0
            /\ \A j \in 1 .. Len(children) : j > i => better(j, i) <= 0

\* The selector closure of lines 50-59: the index, in children, of the child
\* Iterator::max_by returns, which is the last of the maximal ones.
selector(tree, id) ==
    LET children == tree[id].children
        better(i, j) == compare_ucb_1(tree[id].n, tree[children[i]], tree[children[j]])
    IN  CHOOSE i \in 1 .. Len(children) :
            /\ \A j \in 1 .. Len(children) : j < i => better(j, i) <= 0
            /\ \A j \in 1 .. Len(children) : j > i => better(j, i) < 0

\* MCTS::select_leaf: the nodes a descent from the root may return.  The
\* descent follows the selector's child; it ends at a node without children
\* and may end at a node that has some.
RECURSIVE descend(_, _)
descend(tree, id) ==
    IF Len(tree[id].children) = 0 THEN {id}
    ELSE {id} \cup descend(tree, tree[id].children[selector(tree, id)])

select_leaf(tree) == descend(tree, 1)

\* The virtual loss select_leaf takes on the node it returns, and its
\* release (v_loss.fetch_sub(1)).
take_v_loss(tree, id) == [tree EXCEPT ![id].v_loss = @ + 1]

release_v_loss(tree, id) == [tree EXCEPT ![id].v_loss = @ - 1]

\* The node and its ancestors up to the root.
RECURSIVE path_to_root(_, _)
path_to_root(tree, id) ==
    IF id = 0 THEN {} ELSE {id} \cup path_to_root(tree, tree[id].parent)

\* Node::propagate: one more visit and z more value on the node and on each
\* of its ancestors.
propagate(tree, id, z) ==
    LET path == path_to_root(tree, id)
    IN  [i \in NodeIds(tree) |->
            IF i \in path
            THEN [tree[i] EXCEPT !.n = @ + 1, !.w = @ + z]
            ELSE tree[i]]

\* MCTS::expand succeeds (returns Some) when no child of id has the action.
expand_succeeds(tree, id, action) ==
    \A i \in 1 .. Len(tree[id].children) :
        tree[tree[id].children[i]].action # Some(action)

\* The prior a child starts with: the uniform placeholder over the legal
\* actions of its parent.
placeholder_prior(parent_state) ==
    Frac(1, IF parent_state.env.legal_move_count >= 1
            THEN parent_state.env.legal_move_count ELSE 1)

\* MCTS::expand when it succeeds: the tree with the new child appended to
\* the children of id.  The child is node Len(tree) + 1.
expand(tree, id, action, state) ==
    LET child == [parent |-> id, action |-> Some(action), state |-> state,
                  p |-> placeholder_prior(tree[id].state),
                  n |-> 0, w |-> 0, v_loss |-> 0, children |-> << >>]
    IN  Append([tree EXCEPT ![id].children = Append(@, Len(tree) + 1)], child)

(***************************************************************************)
(* The evaluator (session.run on the agent's network): an external         *)
(* function.  It answers a batch with one of EvalKinds output tables; in   *)
(* each the slots differ from one another.                                 *)
(***************************************************************************)
eval_policy(kind, batch_index) ==
    [a \in Cells |-> Frac((a + batch_index + kind) % 3, 1)]

eval_value(kind, batch_index) == ((batch_index + kind) % 3) - 1


(***************************************************************************)
(* ParallelMCTSExecutor::execute                                           *)
(***************************************************************************)
Trees == 1 .. NumTrees

Workers == 1 .. NumWorkers

\* A worker between attempts, none made yet.
IdleWorker ==
    [pc |-> "idle", leaf |-> 0, action |-> None, requests |-> << >>,
     attempts |-> 0, outcome |-> "none"]

VARIABLES
    count,            \* argument count
    batch_size,       \* argument batch_size
    mcts_list,        \* the trees
    processed_count,  \* line 34
    pc,               \* "loop", "collect", "evaluate", "done" (Ok) or "failed" (Err)
    attempt,          \* per tree: iterations of the loop of line 49 begun this round
    leaf,             \* per tree: the node select_leaf returned, 0 between attempts
    local_requests,   \* per tree: the Vec of line 47
    requests,         \* the collected batch of lines 43-159
    \* History of the run, read by the properties only.
    rounds,           \* rounds begun (stops counting at MaxCount + 1)
    round_start,      \* mcts_list as it was when the current round began
    passes_start,     \* passes as it was when the current round began
    eval_calls,       \* evaluator calls of the current round
    eval_slots,       \* per evaluator call of the run: its number of input slots
    passes,           \* per tree and node: propagate calls started at the node
    unpropagated,     \* per tree: attempts of the run that ended without a propagate
    outcome,          \* per tree: how the last attempt ended
    born,             \* per tree and node: the round the node was created in
    choices,          \* per tree: the leaf and action of each attempt ended this round
    \* A game played on an Environment (specification GameSpec).
    game,             \* the Environment
    result,           \* the GameStatus the last place_stone returned
    last,             \* the index given to the last place_stone, None at first
    \* Several workers on one tree (specification RaceSpec).
    workers,          \* per worker: its place in an attempt and what it holds
    \* The training loops (specification TrainSpec); their Environment is game.
    called,           \* the function called: "warm_up" or "perform_episodes"
    train_pc,         \* "running", "returned", or "failed" (Err)
    replay_memory,    \* replay_memory.len()
    episodes,         \* iterations of the for loop of perform_episodes still to run
    played_turn_count, \* self.played_turn_count
    on_legal          \* history: every stone was placed on a legal, empty cell

vars == << count, batch_size, mcts_list, processed_count, pc, attempt, leaf,
           local_requests, requests, rounds, round_start, passes_start,
           eval_calls, eval_slots, passes, unpropagated, outcome, born,
           choices, game, result, last, workers, called, train_pc,
           replay_memory, episodes, played_turn_count, on_legal >>

history == << rounds, round_start, passes_start, eval_calls, eval_slots,
              passes, unpropagated, outcome, born, choices >>

game_vars == << game, result, last >>

race_vars == << workers >>

train_vars == << called, train_pc, replay_memory, episodes, played_turn_count,
                on_legal >>

\* The variables the executor leaves alone.
apart == << game_vars, race_vars, train_vars >>

executor_vars == << count, batch_size, mcts_list, processed_count, pc, attempt,
                    leaf, local_requests, requests, history >>

\* What an attempt drew: the leaf select_leaf returned and the action of
\* line 88 (None when the attempt ended before choosing one).
Choice(node, action) == [leaf |-> node, action |-> action]

\* An NNEvalRequest whose node reference points into the first tree of
\* mcts_list whichever tree the worker was processing.
NNEvalRequestOfFirstTree(t, node, terminal_reward) ==
    [tree |-> 1, node |-> node, terminal_reward |-> terminal_reward]

\* An NNEvalRequest, with the tree its node belongs to.
NNEvalRequest(t, node, terminal_reward) ==
    [tree |-> t, node |-> node, terminal_reward |-> terminal_reward]

\* No training loop is running.
NoTraining ==
    /\ called = "none"
    /\ train_pc = "returned"
    /\ replay_memory = 0
    /\ episodes = 0
    /\ played_turn_count = 0
    /\ on_legal = TRUE

ExecutorInit ==
    /\ count \in 0 .. MaxCount
    /\ batch_size \in 0 .. MaxBatch
    /\ mcts_list = [t \in Trees |-> << RootNode(RootEnvOf(t)) >>]
    /\ processed_count = 0
    /\ pc = "loop"
    /\ attempt = [t \in Trees |-> 0]
    /\ leaf = [t \in Trees |-> 0]
    /\ local_requests = [t \in Trees |-> << >>]
    /\ requests = << >>
    /\ rounds = 0
    /\ round_start = mcts_list
    /\ passes_start = [t \in Trees |-> << 0 >>]
    /\ eval_calls = 0
    /\ eval_slots = << >>
    /\ passes = [t \in Trees |-> << 0 >>]
    /\ unpropagated = [t \in Trees |-> 0]
    /\ outcome = [t \in Trees |-> "none"]
    /\ born = [t \in Trees |-> << 0 >>]
    /\ choices = [t \in Trees |-> << >>]

Init ==
    /\ ExecutorInit
    /\ game = NewEnvironment
    /\ result = "InProgress"
    /\ last = None
    /\ workers = [k \in Workers |-> IdleWorker]
    /\ NoTraining

\* BeginRound that counts one simulation per round instead of batch_size.
BeginRoundByOne ==
    /\ pc = "loop"
    /\ ~(count <= processed_count)
    /\ processed_count' = processed_count + 1
    /\ pc' = "collect"
    /\ attempt' = [t \in Trees |-> 0]
    /\ leaf' = [t \in Trees |-> 0]
    /\ local_requests' = [t \in Trees |-> << >>]
    /\ requests' = << >>
    /\ rounds' = IF rounds <= MaxCount THEN rounds + 1 ELSE rounds
    /\ round_start' = mcts_list
    /\ passes_start' = passes
    /\ eval_calls' = 0
    /\ choices' = [t \in Trees |-> << >>]
    /\ UNCHANGED << apart, born, count, batch_size, mcts_list, eval_slots, passes,
                    unpropagated, outcome >>

\* Lines 36-49: the budget is not exhausted; a round begins.
BeginRound ==
    /\ pc = "loop"
    /\ ~(count <= processed_count)
    /\ processed_count' = processed_count + batch_size
    /\ pc' = "collect"
    /\ attempt' = [t \in Trees |-> 0]
    /\ leaf' = [t \in Trees |-> 0]
    /\ local_requests' = [t \in Trees |-> << >>]
    /\ requests' = << >>
    /\ rounds' = IF rounds <= MaxCount THEN rounds + 1 ELSE rounds
    /\ round_start' = mcts_list
    /\ passes_start' = passes
    /\ eval_calls' = 0
    /\ choices' = [t \in Trees |-> << >>]
    /\ UNCHANGED << apart, born, count, batch_size, mcts_list, eval_slots, passes,
                    unpropagated, outcome >>

\* Lines 37-39 and 230: the budget is exhausted; execute returns Ok(()).
Finish ==
    /\ pc = "loop"
    /\ count <= processed_count
    /\ pc' = "done"
    /\ UNCHANGED << apart, count, batch_size, mcts_list, processed_count, attempt,
                    leaf, local_requests, requests, history >>

\* Lines 49-59: the worker of tree t begins an attempt and selects a leaf.
SelectLeaf(t) ==
    /\ pc = "collect"
    /\ leaf[t] = 0
    /\ attempt[t] < batch_size
    /\ \E node \in select_leaf(mcts_list[t]) :
        /\ mcts_list' = [mcts_list EXCEPT ![t] = take_v_loss(@, node)]
        /\ leaf' = [leaf EXCEPT ![t] = node]
    /\ attempt' = [attempt EXCEPT ![t] = @ + 1]
    /\ UNCHANGED << apart, count, batch_size, processed_count, pc, local_requests,
                    requests, history >>

\* TerminalLeaf without the propagate of line 64.
TerminalLeafNoPropagate(t) ==
    LET tree == mcts_list[t]
        node == leaf[t]
    IN  /\ pc = "collect"
        /\ node # 0
        /\ is_terminal(tree[node].state)
        /\ mcts_list' = [mcts_list EXCEPT ![t] = release_v_loss(tree, node)]
        /\ outcome' = [outcome EXCEPT ![t] = "terminal"]
        /\ leaf' = [leaf EXCEPT ![t] = 0]
        /\ choices' = [choices EXCEPT ![t] = Append(@, Choice(node, None))]
        /\ UNCHANGED << apart, born, count, batch_size, processed_count, pc, attempt,
                        local_requests, requests, rounds, round_start,
                        passes_start, eval_calls, eval_slots, passes,
                        unpropagated >>

\* TerminalLeaf without the fetch_sub of line 65.
TerminalLeafKeepsLoss(t) ==
    LET tree == mcts_list[t]
        node == leaf[t]
    IN  /\ pc = "collect"
        /\ node # 0
        /\ is_terminal(tree[node].state)
        /\ mcts_list' = [mcts_list EXCEPT ![t] =
               propagate(tree, node, tree[node].state.z)]
        /\ passes' = [passes EXCEPT ![t][node] = @ + 1]
        /\ outcome' = [outcome EXCEPT ![t] = "terminal"]
        /\ leaf' = [leaf EXCEPT ![t] = 0]
        /\ choices' = [choices EXCEPT ![t] = Append(@, Choice(node, None))]
        /\ UNCHANGED << apart, born, count, batch_size, processed_count,
                        pc, attempt, local_requests, requests, rounds,
                        round_start, passes_start, eval_calls, eval_slots,
                        unpropagated >>

\* Lines 61-67: the leaf is terminal; its cached outcome is propagated.
TerminalLeaf(t) ==
    LET tree == mcts_list[t]
        node == leaf[t]
    IN  /\ pc = "collect"
        /\ node # 0
        /\ is_terminal(tree[node].state)
        /\ mcts_list' = [mcts_list EXCEPT ![t] =
               release_v_loss(propagate(tree, node, tree[node].state.z), node)]
        /\ passes' = [passes EXCEPT ![t][node] = @ + 1]
        /\ outcome' = [outcome EXCEPT ![t] = "terminal"]
        /\ leaf' = [leaf EXCEPT ![t] = 0]
        /\ choices' = [choices EXCEPT ![t] = Append(@, Choice(node, None))]
        /\ UNCHANGED << apart, born, count, batch_size, processed_count, pc, attempt,
                        local_requests, requests, rounds, round_start,
                        passes_start, eval_calls, eval_slots, unpropagated >>

\* Lines 71-88: the legal actions of the leaf that none of its children has.
available_actions(tree, node) ==
    LET bits == {unwrap(tree[tree[node].children[i]].action) :
                    i \in 1 .. Len(tree[node].children)}
    IN  {action \in Cells :
            is_available_action(tree[node].state, action) /\ action \notin bits}

\* NoAvailableAction without the fetch_sub of line 94.
NoAvailableActionLeak(t) ==
    LET tree == mcts_list[t]
        node == leaf[t]
    IN  /\ pc = "collect"
        /\ node # 0
        /\ ~is_terminal(tree[node].state)
        /\ {action \in Cells :
               /\ is_available_action(tree[node].state, action)
               /\ \A i \in 1 .. Len(tree[node].children) :
                      tree[tree[node].children[i]].action # Some(action)} = {}
        /\ unpropagated' = [unpropagated EXCEPT ![t] = @ + 1]
        /\ outcome' = [outcome EXCEPT ![t] = "no_action"]
        /\ leaf' = [leaf EXCEPT ![t] = 0]
        /\ choices' = [choices EXCEPT ![t] = Append(@, Choice(node, None))]
        /\ UNCHANGED << apart, born, count, batch_size, mcts_list, processed_count, pc,
                        attempt, local_requests, requests, rounds, round_start,
                        passes_start, eval_calls, eval_slots, passes >>

\* NoAvailableAction that backs the leaf up like a terminal one (the
\* propagate of line 64 repeated before line 94).
NoAvailableActionPropagates(t) ==
    LET tree == mcts_list[t]
        node == leaf[t]
    IN  /\ pc = "collect"
        /\ node # 0
        /\ ~is_terminal(tree[node].state)
        /\ available_actions(tree, node) = {}
        /\ mcts_list' = [mcts_list EXCEPT ![t] =
               release_v_loss(propagate(tree, node, tree[node].state.z), node)]
        /\ unpropagated' = [unpropagated EXCEPT ![t] = @ + 1]
        /\ outcome' = [outcome EXCEPT ![t] = "no_action"]
        /\ leaf' = [leaf EXCEPT ![t] = 0]
        /\ choices' = [choices EXCEPT ![t] = Append(@, Choice(node, None))]
        /\ UNCHANGED << apart, born, count, batch_size, processed_count,
                        pc, attempt, local_requests, requests, rounds,
                        round_start, passes_start, eval_calls, eval_slots,
                        passes >>

\* Lines 89-96: no action is available.
NoAvailableAction(t) ==
    LET tree == mcts_list[t]
        node == leaf[t]
    IN  /\ pc = "collect"
        /\ node # 0
        /\ ~is_terminal(tree[node].state)
        /\ available_actions(tree, node) = {}
        /\ mcts_list' = [mcts_list EXCEPT ![t] = release_v_loss(tree, node)]
        /\ unpropagated' = [unpropagated EXCEPT ![t] = @ + 1]
        /\ outcome' = [outcome EXCEPT ![t] = "no_action"]
        /\ leaf' = [leaf EXCEPT ![t] = 0]
        /\ choices' = [choices EXCEPT ![t] = Append(@, Choice(node, None))]
        /\ UNCHANGED << apart, born, count, batch_size, processed_count, pc, attempt,
                        local_requests, requests, rounds, round_start,
                        passes_start, eval_calls, eval_slots, passes >>

\* Expand without the fetch_sub of line 139: the virtual loss stays held
\* while the request waits in the batch.
ExpandHoldsLoss(t) ==
    LET tree == mcts_list[t]
        node == leaf[t]
    IN  /\ pc = "collect"
        /\ node # 0
        /\ ~is_terminal(tree[node].state)
        /\ \E action \in {a \in Cells :
                            /\ is_available_action(tree[node].state, a)
                            /\ \A i \in 1 .. Len(tree[node].children) :
                                 tree[tree[node].children[i]].action # Some(a)} :
            LET placed == place_stone(tree[node].state.env, action)
                terminal_reward == terminal_reward_of(placed.status)
                state == BoardState(placed.env, placed.status)
            IN  /\ mcts_list' = [mcts_list EXCEPT ![t] =
                       expand(tree, node, action, state)]
                /\ local_requests' = [local_requests EXCEPT ![t] =
                       Append(@, NNEvalRequest(t, Len(tree) + 1, terminal_reward))]
                /\ passes' = [passes EXCEPT ![t] = Append(@, 0)]
                /\ born' = [born EXCEPT ![t] = Append(@, rounds)]
                /\ choices' = [choices EXCEPT ![t] = Append(@, Choice(node, Some(action)))]
                /\ outcome' = [outcome EXCEPT ![t] = "expanded"]
                /\ UNCHANGED unpropagated
        /\ leaf' = [leaf EXCEPT ![t] = 0]
        /\ UNCHANGED << apart, count, batch_size, processed_count, pc, attempt,
                        requests, rounds, round_start, passes_start, eval_calls,
                        eval_slots >>

\* Expand with the children of the leaf ignored: any legal action is chosen
\* and the child is pushed whether or not the action already has one.
ExpandNaive(t) ==
    LET tree == mcts_list[t]
        node == leaf[t]
    IN  /\ pc = "collect"
        /\ node # 0
        /\ ~is_terminal(tree[node].state)
        /\ \E action \in {a \in Cells : is_available_action(tree[node].state, a)} :
            LET placed == place_stone(tree[node].state.env, action)
                terminal_reward == terminal_reward_of(placed.status)
                state == BoardState(placed.env, placed.status)
            IN  /\ mcts_list' = [mcts_list EXCEPT ![t] =
                       release_v_loss(expand(tree, node, action, state), node)]
                /\ local_requests' = [local_requests EXCEPT ![t] =
                       Append(@, NNEvalRequest(t, Len(tree) + 1, terminal_reward))]
                /\ passes' = [passes EXCEPT ![t] = Append(@, 0)]
                /\ born' = [born EXCEPT ![t] = Append(@, rounds)]
                /\ choices' = [choices EXCEPT ![t] = Append(@, Choice(node, Some(action)))]
                /\ outcome' = [outcome EXCEPT ![t] = "expanded"]
                /\ UNCHANGED unpropagated
        /\ leaf' = [leaf EXCEPT ![t] = 0]
        /\ UNCHANGED << apart, count, batch_size, processed_count, pc, attempt,
                        requests, rounds, round_start, passes_start, eval_calls,
                        eval_slots >>

\* Expand without the is_terminal test of line 61: a terminal leaf goes on
\* to the expansion code.
ExpandTerminalToo(t) ==
    LET tree == mcts_list[t]
        node == leaf[t]
    IN  /\ pc = "collect"
        /\ node # 0
        /\ \E action \in available_actions(tree, node) :
            LET placed == place_stone(tree[node].state.env, action)
                terminal_reward == terminal_reward_of(placed.status)
                state == BoardState(placed.env, placed.status)
            IN  /\ mcts_list' = [mcts_list EXCEPT ![t] =
                       release_v_loss(expand(tree, node, action, state), node)]
                /\ local_requests' = [local_requests EXCEPT ![t] =
                       Append(@, NNEvalRequest(t, Len(tree) + 1, terminal_reward))]
                /\ passes' = [passes EXCEPT ![t] = Append(@, 0)]
                /\ born' = [born EXCEPT ![t] = Append(@, rounds)]
                /\ choices' = [choices EXCEPT ![t] = Append(@, Choice(node, Some(action)))]
                /\ outcome' = [outcome EXCEPT ![t] = "expanded"]
                /\ UNCHANGED unpropagated
        /\ leaf' = [leaf EXCEPT ![t] = 0]
        /\ UNCHANGED << apart, count, batch_size, processed_count, pc,
                        attempt, requests, rounds, round_start, passes_start,
                        eval_calls, eval_slots >>

\* Expand with the request of line 151 made for the leaf that was expanded
\* instead of the child expand returned.
ExpandRequestsLeaf(t) ==
    LET tree == mcts_list[t]
        node == leaf[t]
    IN  /\ pc = "collect"
        /\ node # 0
        /\ ~is_terminal(tree[node].state)
        /\ \E action \in available_actions(tree, node) :
            LET placed == place_stone(tree[node].state.env, action)
                terminal_reward == terminal_reward_of(placed.status)
                state == BoardState(placed.env, placed.status)
            IN  /\ mcts_list' = [mcts_list EXCEPT ![t] =
                       release_v_loss(expand(tree, node, action, state), node)]
                /\ local_requests' = [local_requests EXCEPT ![t] =
                       Append(@, NNEvalRequest(t, node, terminal_reward))]
                /\ passes' = [passes EXCEPT ![t] = Append(@, 0)]
                /\ born' = [born EXCEPT ![t] = Append(@, rounds)]
                /\ choices' = [choices EXCEPT ![t] = Append(@, Choice(node, Some(action)))]
                /\ outcome' = [outcome EXCEPT ![t] = "expanded"]
                /\ UNCHANGED unpropagated
        /\ leaf' = [leaf EXCEPT ![t] = 0]
        /\ UNCHANGED << apart, count, batch_size, processed_count, pc,
                        attempt, requests, rounds, round_start, passes_start,
                        eval_calls, eval_slots >>

\* Lines 98-154: an available action is chosen, the stone placed on a clone
\* of the leaf's environment and the child inserted; the request is pushed
\* when expand returned the child.
Expand(t) ==
    LET tree == mcts_list[t]
        node == leaf[t]
    IN  /\ pc = "collect"
        /\ node # 0
        /\ ~is_terminal(tree[node].state)
        /\ \E action \in available_actions(tree, node) :
            LET placed == place_stone(tree[node].state.env, action)
                terminal_reward == terminal_reward_of(placed.status)
                state == BoardState(placed.env, placed.status)
            IN  IF expand_succeeds(tree, node, action)
                THEN /\ mcts_list' = [mcts_list EXCEPT ![t] =
                            release_v_loss(expand(tree, node, action, state), node)]
                     /\ local_requests' = [local_requests EXCEPT ![t] =
                            Append(@, NNEvalRequest(t, Len(tree) + 1, terminal_reward))]
                     /\ passes' = [passes EXCEPT ![t] = Append(@, 0)]
                     /\ born' = [born EXCEPT ![t] = Append(@, rounds)]
                     /\ choices' = [choices EXCEPT ![t] =
                            Append(@, Choice(node, Some(action)))]
                     /\ outcome' = [outcome EXCEPT ![t] = "expanded"]
                     /\ UNCHANGED unpropagated
                ELSE /\ mcts_list' = [mcts_list EXCEPT ![t] = release_v_loss(tree, node)]
                     /\ unpropagated' = [unpropagated EXCEPT ![t] = @ + 1]
                     /\ outcome' = [outcome EXCEPT ![t] = "already_expanded"]
                     /\ choices' = [choices EXCEPT ![t] =
                            Append(@, Choice(node, Some(action)))]
                     /\ UNCHANGED << local_requests, passes, born >>
        /\ leaf' = [leaf EXCEPT ![t] = 0]
        /\ UNCHANGED << apart, count, batch_size, processed_count, pc, attempt,
                        requests, rounds, round_start, passes_start, eval_calls,
                        eval_slots >>

\* Every tree has had its batch_size attempts.
AllCollected ==
    \A t \in Trees : attempt[t] = batch_size /\ leaf[t] = 0

\* flat_map(...).collect(): the requests of the trees, in the order of
\* mcts_list.
RECURSIVE flat_requests(_, _)
flat_requests(local, t) ==
    IF t > NumTrees THEN << >> ELSE local[t] \o flat_requests(local, t + 1)

\* CollectEmpty without the is_empty test of line 161: the empty batch goes
\* to the evaluator.
CollectEmptyEvaluates ==
    /\ pc = "collect"
    /\ AllCollected
    /\ flat_requests(local_requests, 1) = << >>
    /\ requests' = << >>
    /\ pc' = "evaluate"
    /\ UNCHANGED << apart, count, batch_size, mcts_list, processed_count, attempt,
                    leaf, local_requests, history >>

\* Lines 157-165: the batch is collected and is empty; the round ends.
CollectEmpty ==
    /\ pc = "collect"
    /\ AllCollected
    /\ flat_requests(local_requests, 1) = << >>
    /\ requests' = << >>
    /\ pc' = "loop"
    /\ UNCHANGED << apart, count, batch_size, mcts_list, processed_count, attempt,
                    leaf, local_requests, history >>

\* CollectBatch that does not wait for the workers: the requests pushed so
\* far go to the evaluator while attempts are still to be made.
CollectBatchEarly ==
    /\ pc = "collect"
    /\ flat_requests(local_requests, 1) # << >>
    /\ requests' = flat_requests(local_requests, 1)
    /\ pc' = "evaluate"
    /\ UNCHANGED << apart, count, batch_size, mcts_list, processed_count,
                    attempt, leaf, local_requests, history >>

\* Lines 157-198: the batch is collected and is not empty; the input tensor
\* gets one slot per request.
CollectBatch ==
    /\ pc = "collect"
    /\ AllCollected
    /\ flat_requests(local_requests, 1) # << >>
    /\ requests' = flat_requests(local_requests, 1)
    /\ pc' = "evaluate"
    /\ UNCHANGED << apart, count, batch_size, mcts_list, processed_count, attempt,
                    leaf, local_requests, history >>

\* apply_result with the evaluator's value used for every request, also for
\* one that carries a terminal reward (line 211 without unwrap_or_else).
apply_result_always_v(trees, request, kind, batch_index) ==
    LET t == request.tree
        node == request.node
        tree == trees[t]
        p == eval_policy(kind, batch_index)
        v == eval_value(kind, batch_index)
        written == [i \in NodeIds(tree) |->
                      IF i = node THEN [tree[i] EXCEPT !.state.policy = p]
                      ELSE IF tree[i].parent = node
                           THEN [tree[i] EXCEPT !.p = p[unwrap(tree[i].action)]]
                           ELSE tree[i]]
    IN  [trees EXCEPT ![t] = propagate(written, node, v)]

\* apply_result that leaves out the propagate of line 226 for a request that
\* carries a terminal reward.
apply_result_skip_terminal(trees, request, kind, batch_index) ==
    LET t == request.tree
        node == request.node
        tree == trees[t]
        p == eval_policy(kind, batch_index)
        v == eval_value(kind, batch_index)
        written == [i \in NodeIds(tree) |->
                      IF i = node THEN [tree[i] EXCEPT !.state.policy = p]
                      ELSE IF tree[i].parent = node
                           THEN [tree[i] EXCEPT !.p = p[unwrap(tree[i].action)]]
                           ELSE tree[i]]
    IN  [trees EXCEPT ![t] = IF is_some(request.terminal_reward) THEN written
                             ELSE propagate(written, node, v)]

\* apply_result with the loop of lines 217-223 run over the children of the
\* node's parent (its siblings and itself) instead of its own children.
apply_result_siblings(trees, request, kind, batch_index) ==
    LET t == request.tree
        node == request.node
        tree == trees[t]
        p == eval_policy(kind, batch_index)
        v == eval_value(kind, batch_index)
        reward == unwrap_or(request.terminal_reward, v)
        written == [i \in NodeIds(tree) |->
                      IF i = node
                      THEN [tree[i] EXCEPT !.state.policy = p,
                                           !.p = p[unwrap(tree[i].action)]]
                      ELSE IF tree[i].parent = tree[node].parent
                           THEN [tree[i] EXCEPT !.p = p[unwrap(tree[i].action)]]
                           ELSE tree[i]]
    IN  [trees EXCEPT ![t] = propagate(written, node, reward)]

\* apply_result that reads the first slot of the evaluator output for every
\* request (the slices of lines 208-210 taken without batch_index).
apply_result_first_slot(trees, request, kind, batch_index) ==
    LET t == request.tree
        node == request.node
        tree == trees[t]
        p == eval_policy(kind, 1)
        v == eval_value(kind, 1)
        reward == unwrap_or(request.terminal_reward, v)
        written == [i \in NodeIds(tree) |->
                      IF i = node THEN [tree[i] EXCEPT !.state.policy = p]
                      ELSE IF tree[i].parent = node
                           THEN [tree[i] EXCEPT !.p = p[unwrap(tree[i].action)]]
                           ELSE tree[i]]
    IN  [trees EXCEPT ![t] = propagate(written, node, reward)]

\* Lines 206-227 for the request at batch_index (from 1), with the
\* evaluator output of the given kind.
apply_result(trees, request, kind, batch_index) ==
    LET t == request.tree
        node == request.node
        tree == trees[t]
        p == eval_policy(kind, batch_index)
        v == eval_value(kind, batch_index)
        reward == unwrap_or(request.terminal_reward, v)
        written == [i \in NodeIds(tree) |->
                      IF i = node THEN [tree[i] EXCEPT !.state.policy = p]
                      ELSE IF tree[i].parent = node
                           THEN [tree[i] EXCEPT !.p = p[unwrap(tree[i].action)]]
                           ELSE tree[i]]
    IN  [trees EXCEPT ![t] = propagate(written, node, reward)]

RECURSIVE apply_results(_, _, _, _)
apply_results(trees, reqs, kind, batch_index) ==
    IF batch_index > Len(reqs) THEN trees
    ELSE apply_results(apply_result(trees, reqs[batch_index], kind, batch_index),
                       reqs, kind, batch_index + 1)

\* The propagate calls of lines 206-227, counted per tree and node.
RECURSIVE count_passes(_, _, _)
count_passes(ps, reqs, batch_index) ==
    IF batch_index > Len(reqs) THEN ps
    ELSE count_passes([ps EXCEPT ![reqs[batch_index].tree][reqs[batch_index].node] = @ + 1],
                      reqs, batch_index + 1)

\* EvaluateOk with a v_loss.fetch_sub(1) on the expanded leaf (the parent of
\* the request's node) after each propagate of line 226.
RECURSIVE release_after_backup(_, _, _)
release_after_backup(trees, reqs, batch_index) ==
    IF batch_index > Len(reqs) THEN trees
    ELSE LET t == reqs[batch_index].tree
             node == reqs[batch_index].node
         IN  release_after_backup(
                 [trees EXCEPT ![t] = release_v_loss(@, trees[t][node].parent)],
                 reqs, batch_index + 1)

EvaluateOkReleases ==
    /\ pc = "evaluate"
    /\ \E kind \in 0 .. (EvalKinds - 1) :
        mcts_list' = release_after_backup(
                         apply_results(mcts_list, requests, kind, 1), requests, 1)
    /\ passes' = count_passes(passes, requests, 1)
    /\ eval_calls' = eval_calls + 1
    /\ eval_slots' = Append(eval_slots, Len(requests))
    /\ pc' = "loop"
    /\ UNCHANGED << apart, born, choices, count, batch_size, processed_count,
                    attempt, leaf, local_requests, requests, rounds,
                    round_start, passes_start, unpropagated, outcome >>

\* Lines 200-228: the evaluator answers; every request of the batch gets
\* its slot of the answer.
EvaluateOk ==
    /\ pc = "evaluate"
    /\ \E kind \in 0 .. (EvalKinds - 1) :
        mcts_list' = apply_results(mcts_list, requests, kind, 1)
    /\ passes' = count_passes(passes, requests, 1)
    /\ eval_calls' = eval_calls + 1
    /\ eval_slots' = Append(eval_slots, Len(requests))
    /\ pc' = "loop"
    /\ UNCHANGED << apart, born, choices, count, batch_size, processed_count, attempt, leaf,
                    local_requests, requests, rounds, round_start,
                    passes_start, unpropagated, outcome >>

\* EvaluateErr where the failure is noticed only after the results of the
\* batch were written and propagated.
EvaluateErrAfterApply ==
    /\ pc = "evaluate"
    /\ pc' = "failed"
    /\ \E kind \in 0 .. (EvalKinds - 1) :
        mcts_list' = apply_results(mcts_list, requests, kind, 1)
    /\ eval_calls' = eval_calls + 1
    /\ eval_slots' = Append(eval_slots, Len(requests))
    /\ UNCHANGED << apart, born, choices, count, batch_size, processed_count, attempt, leaf,
                    local_requests, requests, rounds, round_start,
                    passes_start, passes, unpropagated, outcome >>

\* Lines 200-204: session.run or a fetch fails; execute returns the error.
EvaluateErr ==
    /\ pc = "evaluate"
    /\ pc' = "failed"
    /\ eval_calls' = eval_calls + 1
    /\ eval_slots' = Append(eval_slots, Len(requests))
    /\ UNCHANGED << apart, born, choices, count, batch_size, mcts_list, processed_count, attempt,
                    leaf, local_requests, requests, rounds, round_start,
                    passes_start, passes, unpropagated, outcome >>

Next ==
    \/ BeginRound
    \/ Finish
    \/ \E t \in Trees : SelectLeaf(t)
    \/ \E t \in Trees : TerminalLeaf(t)
    \/ \E t \in Trees : NoAvailableAction(t)
    \/ \E t \in Trees : Expand(t)
    \/ CollectEmpty
    \/ CollectBatch
    \/ EvaluateOk
    \/ EvaluateErr

Spec == Init /\ [][Next]_vars

\* The thread pool runs every worker and the calling thread to completion.
FairSpec == Spec /\ WF_vars(Next)

(***************************************************************************)
(* execute on trees rooted at a position from which either player can      *)
(* still win (specification BothSpec).                                     *)
(***************************************************************************)
BothInit ==
    /\ count \in 0 .. MaxCount
    /\ batch_size \in 0 .. MaxBatch
    /\ mcts_list = [t \in Trees |-> << RootNode(RootBothEnv) >>]
    /\ processed_count = 0
    /\ pc = "loop"
    /\ attempt = [t \in Trees |-> 0]
    /\ leaf = [t \in Trees |-> 0]
    /\ local_requests = [t \in Trees |-> << >>]
    /\ requests = << >>
    /\ rounds = 0
    /\ round_start = mcts_list
    /\ passes_start = [t \in Trees |-> << 0 >>]
    /\ eval_calls = 0
    /\ eval_slots = << >>
    /\ passes = [t \in Trees |-> << 0 >>]
    /\ unpropagated = [t \in Trees |-> 0]
    /\ outcome = [t \in Trees |-> "none"]
    /\ born = [t \in Trees |-> << 0 >>]
    /\ choices = [t \in Trees |-> << >>]
    /\ game = NewEnvironment
    /\ result = "InProgress"
    /\ last = None
    /\ workers = [k \in Workers |-> IdleWorker]
    /\ NoTraining

BothSpec == BothInit /\ [][Next]_vars

(***************************************************************************)
(* A game on one Environment: Environment::new, then place_stone on empty  *)
(* cells for as long as the status returned is InProgress.                 *)
(***************************************************************************)
PlayCells == {c \in Cells : c \div BOARD_SIZE < PlayRows}

stone_count(board) == Cardinality({c \in Cells : board[c] # 0})

GameInit ==
    /\ Init
    /\ count = 0
    /\ batch_size = 0

PlaceStone(index) ==
    /\ result = "InProgress"
    /\ stone_count(game.board) < MaxMoves
    /\ game.board[index] = 0
    /\ game' = place_stone(game, index).env
    /\ result' = place_stone(game, index).status
    /\ last' = Some(index)
    /\ UNCHANGED << executor_vars, race_vars, train_vars >>

GameNext == \E index \in PlayCells : PlaceStone(index)

GameSpec == GameInit /\ [][GameNext]_vars

(***************************************************************************)
(* One place_stone on a position of a game.  The positions: a line of five *)
(* or six cells in one of the four directions with the mover's stones on   *)
(* all of its cells but one, and the opponent's stones, as many as the     *)
(* turn order requires, on cells no two of which are neighbours; and the   *)
(* positions of the games from Root3Env that are still in progress.        *)
(***************************************************************************)
on_board(x, y) == 0 <= x /\ x < BOARD_SIZE /\ 0 <= y /\ y < BOARD_SIZE

cell_at(x, y) == y * BOARD_SIZE + x

\* The four directions of lines 81-95, as (dx, dy).
Directions == {<< 1, 0 >>, << 0, 1 >>, << 1, 1 >>, << -1, 1 >>}

\* The cells of the line of len cells from (x, y) in direction d.
line_cells(x, y, d, len) ==
    {cell_at(x + j * d[1], y + j * d[2]) : j \in 0 .. (len - 1)}

\* Cells no two of which are neighbours in any of the four directions.
ScatteredCells == {c \in Cells : ((c % BOARD_SIZE) + 2 * (c \div BOARD_SIZE)) % 5 = 0}

\* The board with the mover's stones on the line but for hole, and the
\* opponent's on the first scattered cells off the line.
line_board(line, hole, mover) ==
    LET own == IF mover = "Black" THEN 1 ELSE -1
        n == IF mover = "Black" THEN Cardinality(line) - 1 ELSE Cardinality(line)
        free == ScatteredCells \ line
        others == {c \in free : Cardinality({e \in free : e < c}) < n}
    IN  [c \in Cells |-> IF c \in line \ {hole} THEN own
                         ELSE IF c \in others THEN -own ELSE 0]

EnvOfCells(board, turn) ==
    [turn |-> turn,
     board |-> board,
     legal_moves |-> [c \in Cells |-> board[c] = 0],
     legal_move_count |-> Cardinality({c \in Cells : board[c] = 0})]

\* The stone at index lies in a row of exactly len stones of colour own in
\* direction d: len cells in a line, index among them, all of colour own,
\* and the cell before the first and the cell after the last off the board
\* or not of colour own.
line_through(board, own, index, d, len) ==
    LET x == index % BOARD_SIZE
        y == index \div BOARD_SIZE
        is_own(j) == /\ on_board(x + j * d[1], y + j * d[2])
                     /\ board[cell_at(x + j * d[1], y + j * d[2])] = own
    IN  \E s \in 0 .. (len - 1) :
            /\ \A j \in (0 - s) .. (len - 1 - s) : is_own(j)
            /\ ~is_own(0 - s - 1)
            /\ ~is_own(len - s)

\* No stone of the board lies in a row of five or more of its colour.
no_line_yet(board) ==
    \A c \in Cells : \A d \in Directions :
        \A len \in SERIAL_STONE_COUNT .. BOARD_SIZE :
            board[c] # 0 => ~line_through(board, board[c], c, d, len)

\* The lines of five or six cells that are on the board, each with a hole
\* that leaves no row of five on it, for either mover.
LineChoices ==
    {q \in (0 .. (BOARD_SIZE - 1)) \X (0 .. (BOARD_SIZE - 1)) \X Directions
            \X {SERIAL_STONE_COUNT, SERIAL_STONE_COUNT + 1} \X Cells \X Turn :
        /\ on_board(q[1] + (q[4] - 1) * q[3][1], q[2] + (q[4] - 1) * q[3][2])
        /\ q[5] \in line_cells(q[1], q[2], q[3], q[4])
        /\ no_line_yet(line_board(line_cells(q[1], q[2], q[3], q[4]), q[5], q[6]))}

LinePositions ==
    {EnvOfCells(line_board(line_cells(q[1], q[2], q[3], q[4]), q[5], q[6]), q[6]) :
        q \in LineChoices}

\* The environments one place_stone that returns InProgress leads to from
\* one of envs.
in_progress_after(envs) ==
    {place_stone(q[1], q[2]).env :
        q \in {r \in envs \X Cells :
                  /\ r[1].board[r[2]] = 0
                  /\ place_stone(r[1], r[2]).status = "InProgress"}}

\* A board with one empty cell (2), 18 black and 17 white stones, White to
\* move, no line of five on it: a white stone on 2 fills the board and makes
\* the top row six long.
LastCellBoard ==
    << -1, -1,  0, -1, -1, -1,
        1,  1, -1, -1,  1, -1,
        1, -1,  1,  1, -1,  1,
        1, -1, -1,  1,  1, -1,
        1,  1,  1, -1,  1,  1,
       -1,  1, -1,  1,  1, -1 >>

LastCellEnv == EnvOfBoard(LastCellBoard, "White")

Positions ==
    {NewEnvironment}
    \cup LinePositions
    \cup {Root3Env, LastCellEnv}
    \cup in_progress_after({Root3Env})
    \cup in_progress_after(in_progress_after({Root3Env}))

PlaceInit ==
    /\ ExecutorInit
    /\ count = 0
    /\ batch_size = 0
    /\ workers = [k \in Workers |-> IdleWorker]
    /\ game \in Positions
    /\ result = "InProgress"
    /\ last = None
    /\ NoTraining

\* One place_stone on an empty cell of the position.
PlaceOnce(index) ==
    /\ last = None
    /\ game.board[index] = 0
    /\ game' = place_stone(game, index).env
    /\ result' = place_stone(game, index).status
    /\ last' = Some(index)
    /\ UNCHANGED << executor_vars, race_vars, train_vars >>

PlaceNext == \E index \in Cells : PlaceOnce(index)

PlaceSpec == PlaceInit /\ [][PlaceNext]_vars

(***************************************************************************)
(* src/train.rs: warm_up and perform_episodes (specification TrainSpec).   *)
(* The replay memory is kept as its length.  The random moves of warm_up   *)
(* are drawn from TrainCells, the moves of perform_episodes from           *)
(* EpisodeCells.                                                           *)
(***************************************************************************)
\* replay_memory.len() at which warm_up returns (50_000).
WARM_UP_SIZE == 2

\* replay_memory.len() at which perform_episodes drops the oldest
\* transition (100_0000).
REPLAY_CAPACITY == 3

\* The first SERIAL_STONE_COUNT cells of the top row and the first
\* SERIAL_STONE_COUNT - 1 cells of the row below.
TrainCells ==
    {c \in Cells :
        \/ c \div BOARD_SIZE = 0 /\ c % BOARD_SIZE < SERIAL_STONE_COUNT
        \/ c \div BOARD_SIZE = 1 /\ c % BOARD_SIZE < SERIAL_STONE_COUNT - 1}

\* The cells the moves of perform_episodes are drawn from: the first
\* SERIAL_STONE_COUNT cells of the top row and the first cell of the row
\* below.
EpisodeCells == {c \in TrainCells : c <= BOARD_SIZE}

\* The placements made on env since Environment::new.
plies(env) == BOARD_SIZE * BOARD_SIZE - env.legal_move_count

\* replay_memory.push_back: the length after it (lengths from MaxMemory on
\* are not told apart).
push_back(len) == IF len < MaxMemory THEN len + 1 ELSE len

TrainInit ==
    /\ ExecutorInit
    /\ count = 0
    /\ batch_size = 0
    /\ workers = [k \in Workers |-> IdleWorker]
    /\ game = NewEnvironment
    /\ result = "InProgress"
    /\ last = None
    /\ called \in {"warm_up", "perform_episodes"}
    /\ train_pc = "running"
    /\ replay_memory \in 0 .. MaxMemory
    /\ episodes \in IF called = "perform_episodes" THEN 0 .. MaxEpisodes ELSE {0}
    /\ played_turn_count \in IF called = "perform_episodes" THEN 0 .. MaxPlayed ELSE {0}
    /\ on_legal = TRUE

\* warm_up, lines 185-238: one iteration of the inner loop.  A random legal
\* move is placed and the transition pushed; warm_up returns when the
\* memory then holds exactly 50_000 transitions, and a new game is begun
\* when this one is over.
WarmUpTurn(index) ==
    /\ called = "warm_up"
    /\ train_pc = "running"
    /\ plies(game) < MaxPlies
    /\ game.legal_moves[index]
    /\ LET placed == place_stone(game, index)
       IN  /\ replay_memory' = push_back(replay_memory)
           /\ result' = placed.status
           /\ last' = Some(index)
           /\ on_legal' = (on_legal /\ game.legal_moves[index] /\ game.board[index] = 0)
           /\ IF replay_memory + 1 = WARM_UP_SIZE
              THEN /\ train_pc' = "returned"
                   /\ game' = placed.env
              ELSE /\ train_pc' = "running"
                   /\ game' = IF placed.status = "InProgress" THEN placed.env
                              ELSE NewEnvironment
    /\ UNCHANGED << called, episodes, played_turn_count, executor_vars, race_vars >>

\* warm_up, lines 185-238: the iterations of the inner loop that finish a
\* game which has left TrainCells or lasted MaxPlies placements.  The game
\* goes on, on the cells outside TrainCells, until a placement on one of
\* them returns a win or a draw (at the latest when legal_move_count is 0);
\* every placement pushes a transition.  The memory held WARM_UP_SIZE
\* transitions or more when this game began, since warm_up would have
\* returned during it otherwise, so no push of the rest of the game brings
\* it to WARM_UP_SIZE.
WarmUpRest(index, status) ==
    /\ called = "warm_up"
    /\ train_pc = "running"
    /\ \/ plies(game) >= MaxPlies
       \/ \A c \in TrainCells : ~game.legal_moves[c]
    /\ game.legal_moves[index]
    /\ status # "InProgress"
    /\ replay_memory' = push_back(replay_memory)
    /\ result' = status
    /\ last' = Some(index)
    /\ game' = NewEnvironment
    /\ train_pc' = "running"
    /\ UNCHANGED << called, episodes, played_turn_count, on_legal, executor_vars,
                    race_vars >>

\* perform_episodes, lines 249-399: one iteration of the inner loop.  The
\* move is a random legal one or, when greedy, the index of the largest
\* entry of the network's output, which may be any cell; the greedy branch
\* is taken with probability 1 - epsilon, which is 0 while
\* played_turn_count is 0.  The transition is pushed, after the oldest was
\* dropped at 100_0000; the training step follows, and it fails when ok is
\* FALSE.  The episode is over when the game is.
EpisodeTurn(index, greedy, ok) ==
    /\ called = "perform_episodes"
    /\ train_pc = "running"
    /\ episodes > 0
    /\ plies(game) < MaxPlies
    /\ IF greedy THEN played_turn_count > 0 ELSE game.legal_moves[index]
    /\ LET placed == place_stone(game, index)
       IN  /\ replay_memory' = IF replay_memory = REPLAY_CAPACITY THEN replay_memory
                               ELSE push_back(replay_memory)
           /\ result' = placed.status
           /\ last' = Some(index)
           /\ on_legal' = (on_legal /\ game.legal_moves[index] /\ game.board[index] = 0)
           /\ IF ~ok
              THEN /\ train_pc' = "failed"
                   /\ game' = placed.env
                   /\ UNCHANGED << episodes, played_turn_count >>
              ELSE /\ train_pc' = "running"
                   /\ played_turn_count' = IF played_turn_count < MaxPlayed
                                           THEN played_turn_count + 1
                                           ELSE played_turn_count
                   /\ IF placed.status = "InProgress"
                      THEN /\ game' = placed.env
                           /\ UNCHANGED episodes
                      ELSE /\ game' = NewEnvironment
                           /\ episodes' = episodes - 1
    /\ UNCHANGED << called, executor_vars, race_vars >>

\* perform_episodes, lines 280-281: the network fails on the greedy branch
\* before a move is chosen.
EpisodeEvalErr ==
    /\ called = "perform_episodes"
    /\ train_pc = "running"
    /\ episodes > 0
    /\ played_turn_count > 0
    /\ train_pc' = "failed"
    /\ UNCHANGED << called, replay_memory, episodes, played_turn_count, on_legal,
                    game_vars, executor_vars, race_vars >>

\* perform_episodes, lines 245 and 402: the for loop is over.
EpisodesReturn ==
    /\ called = "perform_episodes"
    /\ train_pc = "running"
    /\ episodes = 0
    /\ train_pc' = "returned"
    /\ UNCHANGED << called, replay_memory, episodes, played_turn_count, on_legal,
                    game_vars, executor_vars, race_vars >>

TrainNext ==
    \/ \E index \in TrainCells : WarmUpTurn(index)
    \/ \E index \in Cells \ TrainCells :
           \E status \in {"BlackWin", "WhiteWin", "Draw"} : WarmUpRest(index, status)
    \/ \E index \in EpisodeCells :
           \E greedy, ok \in BOOLEAN : EpisodeTurn(index, greedy, ok)
    \/ EpisodeEvalErr
    \/ EpisodesReturn

TrainSpec == TrainInit /\ [][TrainNext]_vars

TrainFairSpec == TrainSpec /\ WF_vars(TrainNext)

(***************************************************************************)
(* Several workers on one tree.  Within one call of execute a tree has one *)
(* worker; two calls that are given the same tree at the same time have    *)
(* one each.  Every worker runs the attempts of lines 49-155 on the first  *)
(* tree of mcts_list; an attempt is three steps (select_leaf, the choice   *)
(* of the action, mcts.expand), and the steps of the workers interleave.   *)
(***************************************************************************)
RaceInit ==
    /\ Init
    /\ count = 0
    /\ batch_size = 0

\* What a step of a worker leaves alone.
race_frame ==
    << game_vars, train_vars, count, batch_size, processed_count, pc, attempt, leaf,
       local_requests, requests, history >>

\* The attempts the workers have begun.
RECURSIVE attempts_from(_)
attempts_from(k) ==
    IF k > NumWorkers THEN 0 ELSE workers[k].attempts + attempts_from(k + 1)

attempts_begun == attempts_from(1)

\* Lines 49-59: the worker begins an attempt and selects a leaf.
RaceSelectLeaf(k) ==
    /\ workers[k].pc = "idle"
    /\ attempts_begun < MaxAttempts
    /\ \E node \in select_leaf(mcts_list[1]) :
        /\ mcts_list' = [mcts_list EXCEPT ![1] = take_v_loss(@, node)]
        /\ workers' = [workers EXCEPT ![k].pc = "selected",
                                      ![k].leaf = node,
                                      ![k].attempts = @ + 1]
    /\ UNCHANGED race_frame

\* Lines 61-67.
RaceTerminalLeaf(k) ==
    LET tree == mcts_list[1]
        node == workers[k].leaf
    IN  /\ workers[k].pc = "selected"
        /\ is_terminal(tree[node].state)
        /\ mcts_list' = [mcts_list EXCEPT ![1] =
               release_v_loss(propagate(tree, node, tree[node].state.z), node)]
        /\ workers' = [workers EXCEPT ![k].pc = "idle",
                                      ![k].outcome = "terminal"]
        /\ UNCHANGED race_frame

\* Lines 71-88 when an action is available: the worker has read the
\* children of the leaf and chosen the action.
RaceChooseAction(k) ==
    LET tree == mcts_list[1]
        node == workers[k].leaf
    IN  /\ workers[k].pc = "selected"
        /\ ~is_terminal(tree[node].state)
        /\ \E action \in available_actions(tree, node) :
               workers' = [workers EXCEPT ![k].pc = "chosen",
                                         ![k].action = Some(action)]
        /\ UNCHANGED << mcts_list, race_frame >>

\* Lines 71-96 when no action is available.
RaceNoAvailableAction(k) ==
    LET tree == mcts_list[1]
        node == workers[k].leaf
    IN  /\ workers[k].pc = "selected"
        /\ ~is_terminal(tree[node].state)
        /\ available_actions(tree, node) = {}
        /\ mcts_list' = [mcts_list EXCEPT ![1] = release_v_loss(tree, node)]
        /\ workers' = [workers EXCEPT ![k].pc = "idle",
                                      ![k].outcome = "no_action"]
        /\ UNCHANGED race_frame

\* RaceExpand whose None arm pushes a request for the child that is there
\* already.
RaceExpandLoserRequests(k) ==
    LET tree == mcts_list[1]
        node == workers[k].leaf
        action == unwrap(workers[k].action)
        placed == place_stone(tree[node].state.env, action)
        state == BoardState(placed.env, placed.status)
        there == CHOOSE x \in NodeIds(tree) :
                     tree[x].parent = node /\ tree[x].action = Some(action)
    IN  /\ workers[k].pc = "chosen"
        /\ IF expand_succeeds(tree, node, action)
           THEN /\ mcts_list' = [mcts_list EXCEPT ![1] =
                       release_v_loss(expand(tree, node, action, state), node)]
                /\ workers' = [workers EXCEPT
                       ![k].pc = "idle",
                       ![k].action = None,
                       ![k].requests = Append(@, Len(tree) + 1),
                       ![k].outcome = "expanded"]
           ELSE /\ mcts_list' = [mcts_list EXCEPT ![1] = release_v_loss(tree, node)]
                /\ workers' = [workers EXCEPT
                       ![k].pc = "idle",
                       ![k].action = None,
                       ![k].requests = Append(@, there),
                       ![k].outcome = "already_expanded"]
        /\ UNCHANGED race_frame

\* Lines 98-155: the stone is placed on a clone of the leaf's environment
\* and mcts.expand called; Some(child): the virtual loss is released and
\* the request pushed; None: the virtual loss is released and the attempt
\* ends.
RaceExpand(k) ==
    LET tree == mcts_list[1]
        node == workers[k].leaf
        action == unwrap(workers[k].action)
        placed == place_stone(tree[node].state.env, action)
        state == BoardState(placed.env, placed.status)
    IN  /\ workers[k].pc = "chosen"
        /\ IF expand_succeeds(tree, node, action)
           THEN /\ mcts_list' = [mcts_list EXCEPT ![1] =
                       release_v_loss(expand(tree, node, action, state), node)]
                /\ workers' = [workers EXCEPT
                       ![k].pc = "idle",
                       ![k].action = None,
                       ![k].requests = Append(@, Len(tree) + 1),
                       ![k].outcome = "expanded"]
           ELSE /\ mcts_list' = [mcts_list EXCEPT ![1] = release_v_loss(tree, node)]
                /\ workers' = [workers EXCEPT
                       ![k].pc = "idle",
                       ![k].action = None,
                       ![k].outcome = "already_expanded"]
        /\ UNCHANGED race_frame

RaceNext ==
    \/ \E k \in Workers : RaceSelectLeaf(k)
    \/ \E k \in Workers : RaceTerminalLeaf(k)
    \/ \E k \in Workers : RaceChooseAction(k)
    \/ \E k \in Workers : RaceNoAvailableAction(k)
    \/ \E k \in Workers : RaceExpand(k)

RaceSpec == RaceInit /\ [][RaceNext]_vars

(***************************************************************************)
(* Properties.                                                             *)
(***************************************************************************)
RECURSIVE SumSeq(_)
SumSeq(q) == IF q = << >> THEN 0 ELSE Head(q) + SumSeq(Tail(q))

IsPrefix(a, b) == Len(a) <= Len(b) /\ \A i \in 1 .. Len(a) : a[i] = b[i]

passes_through(tree, ps, node) ==
    SumSeq([y \in 1 .. Len(tree) |->
               IF node \in path_to_root(tree, y) THEN ps[y] ELSE 0])

\* C2: the visit count of every node equals the number of passes, started
\* by a terminal-leaf shortcut or by a processed request, whose path to the
\* root includes the node; and no step decreases a visit count.
C2_VisitCountIsPasses ==
    /\ [](\A t \in Trees : \A node \in NodeIds(mcts_list[t]) :
            mcts_list[t][node].n = passes_through(mcts_list[t], passes[t], node))
    /\ [][\A t \in Trees : \A node \in NodeIds(mcts_list[t]) :
            mcts_list'[t][node].n >= mcts_list[t][node].n]_vars

\* A node other than the root that was the start of a request pass and of a
\* terminal-leaf shortcut pass.
C2_Witness ==
    \E t \in Trees : \E node \in NodeIds(mcts_list[t]) :
        /\ node # 1
        /\ passes[t][node] >= 2
        /\ mcts_list[t][1].n >= 2
        /\ eval_slots # << >>

\* The virtual loss a node had when the round began (0 for a node created
\* during the round).
v_loss_at_round_start(t, node) ==
    IF node \in NodeIds(round_start[t]) THEN round_start[t][node].v_loss ELSE 0

C4_EvaluatorOncePerRound ==
    /\ eval_calls <= 1
    /\ pc \in {"collect", "evaluate"} => eval_calls = 0
    /\ pc = "evaluate" => requests # << >>
    /\ (pc \in {"loop", "done", "failed"} /\ rounds >= 1) =>
        /\ requests = flat_requests(local_requests, 1)
        /\ eval_calls = (IF requests # << >> THEN 1 ELSE 0)
        /\ requests # << >> => eval_slots[Len(eval_slots)] = Len(requests)

\* A round of a positive batch_size ended with an empty batch and without a
\* call, after a round that called the evaluator with two slots.
C4_Witness ==
    /\ pc = "loop"
    /\ batch_size >= 1
    /\ rounds >= 2
    /\ requests = << >>
    /\ eval_calls = 0
    /\ eval_slots # << >>
    /\ eval_slots[1] >= 2

\* C5: execute eventually returns, with success or with the evaluator's
\* error, whatever count and batch_size are.
C5_ExecuteReturns == <>(pc \in {"done", "failed"})

CeilDiv(a, b) == (a + b - 1) \div b

\* C6: a successful execute with batch_size >= 1 has begun exactly
\* ceil(count / batch_size) rounds, rounds with an empty batch included; no
\* tree gets more than batch_size attempts in a round, and when the
\* attempts of a round are over every tree has had exactly batch_size.
C6_RoundsAndAttempts ==
    /\ (pc = "done" /\ batch_size >= 1) => rounds = CeilDiv(count, batch_size)
    /\ \A t \in Trees : attempt[t] <= batch_size
    /\ (pc \in {"evaluate", "failed"} \/ (pc \in {"loop", "done"} /\ rounds >= 1)) =>
            \A t \in Trees : attempt[t] = batch_size /\ leaf[t] = 0

\* A successful run of two rounds, one of them with an empty batch.
C6_Witness ==
    /\ pc = "done"
    /\ batch_size = 1
    /\ rounds = 2
    /\ Len(eval_slots) = 1

\* C7 as stated: when execute returns success the root visit count of every
\* tree (zero before the run) is at most count.
C7_AtMostCount ==
    pc = "done" => \A t \in Trees : mcts_list[t][1].n <= count

\* C7 amended: when execute returns success with batch_size >= 1, the root
\* visit count of every tree is batch_size * ceil(count / batch_size), which
\* may exceed count, less the attempts of the tree that ended without a
\* propagate; with batch_size = 0 it is zero.
C7_RootVisits ==
    pc = "done" => \A t \in Trees :
        mcts_list[t][1].n + unpropagated[t] =
            (IF batch_size >= 1 THEN batch_size * CeilDiv(count, batch_size) ELSE 0)

\* A successful run after which a root has more visits than count, and one
\* after which a tree fell short by an attempt without a propagate.
C7_Witness ==
    /\ pc = "done"
    /\ \E t \in Trees : mcts_list[t][1].n > count
    /\ \E t \in Trees : unpropagated[t] >= 1

\* C8: the step on which the evaluator fails leaves every tree as it was (no
\* policy or prior is written and nothing is propagated for the requests of
\* the round), it is the only evaluator call of the round, and no step
\* follows it: no further round, no further call.
C8_FailureAborts ==
    [][/\ pc # "failed"
       /\ pc' = "failed" =>
            /\ pc = "evaluate"
            /\ mcts_list' = mcts_list
            /\ passes' = passes
            /\ processed_count' = processed_count
            /\ eval_calls' = 1]_vars

\* The evaluator failed in the second round, after a round in which it
\* answered a batch of two requests.
C8_Witness ==
    /\ pc = "failed"
    /\ rounds >= 2
    /\ Len(eval_slots) >= 2
    /\ eval_slots[1] >= 2

\* The passes of the current round whose path to the root includes node.
round_passes_through(t, node) ==
    passes_through(mcts_list[t], passes[t], node)
        - (IF node \in NodeIds(round_start[t])
           THEN passes_through(round_start[t], passes_start[t], node) ELSE 0)

\* The value those passes carried: a terminal-leaf pass carries the cached
\* outcome z of the leaf it starts at.
round_value_through(t, node) ==
    SumSeq([y \in 1 .. Len(mcts_list[t]) |->
               IF node \in path_to_root(mcts_list[t], y)
               THEN (passes[t][y] - (IF y \in NodeIds(round_start[t])
                                     THEN passes_start[t][y] ELSE 0))
                        * mcts_list[t][y].state.z
               ELSE 0])

OneWinningCell(t) == mcts_list[t][1].state.env = RootWin1Env

\* C10 as stated: the evaluator is never called for the winning leaf: no
\* batch sent to the evaluator has a slot for a node of such a tree.
C10_EvaluatorNeverCalled ==
    pc = "evaluate" =>
        \A i \in 1 .. Len(requests) : ~OneWinningCell(requests[i].tree)

\* C10 amended: the first simulation of such a tree expands the winning
\* leaf, finds the game won from the rules and caches the outcome 1 on the
\* leaf and in its request; the request is part of the round's batch, so
\* the evaluator is called with a slot for it once, but the value propagated
\* for it is the cached 1 and not the evaluator's value; every later
\* simulation through the leaf propagates the cached 1 without a request.
C10_WinBackpropagated ==
    \A t \in Trees : OneWinningCell(t) =>
        LET tree == mcts_list[t]
        IN  /\ Len(tree) <= 2
            /\ \A node \in NodeIds(tree) : tree[node].w = tree[node].n
            /\ Len(tree) = 2 =>
                /\ tree[2].state.status = "WhiteWin"
                /\ tree[2].state.z = 1
                /\ tree[2].children = << >>
            /\ \A i \in 1 .. Len(local_requests[t]) :
                /\ i = 1
                /\ local_requests[t][i].node = 2
                /\ local_requests[t][i].terminal_reward = Some(1)
                /\ Len(round_start[t]) = 1

\* The winning leaf was visited twice, through its request after an
\* evaluator call and through the terminal-leaf shortcut.
C10_Witness ==
    \E t \in Trees :
        /\ OneWinningCell(t)
        /\ Len(mcts_list[t]) = 2
        /\ mcts_list[t][2].n >= 2
        /\ eval_slots # << >>

\* The indices, in the children of node id, of the children whose score is
\* the maximum.
maximal_children(tree, id) ==
    LET children == tree[id].children
    IN  {i \in 1 .. Len(children) :
            \A j \in 1 .. Len(children) :
                compare_ucb_1(tree[id].n, tree[children[j]], tree[children[i]]) <= 0}

\* The index of node x in the children of its parent.
child_index(tree, x) ==
    CHOOSE i \in 1 .. Len(tree[tree[x].parent].children) :
        tree[tree[x].parent].children[i] = x

\* C11 as claimed: whenever a selection descends from a node into one of its
\* children, the child taken is the first-inserted (lowest index) of the
\* children with the maximum score.
C11_FirstMaximalChosen ==
    [][\A t \in Trees :
          (leaf[t] = 0 /\ leaf'[t] # 0) =>
              \A x \in path_to_root(mcts_list[t], leaf'[t]) \ {1} :
                  \A i \in maximal_children(mcts_list[t], mcts_list[t][x].parent) :
                      child_index(mcts_list[t], x) <= i]_vars

\* C11 amended: whenever a selection descends from a node into one of its
\* children, the child taken has the maximum score and is the last-inserted
\* (highest index) of the children that have it.
C11_LastMaximalChosen ==
    [][\A t \in Trees :
          (leaf[t] = 0 /\ leaf'[t] # 0) =>
              \A x \in path_to_root(mcts_list[t], leaf'[t]) \ {1} :
                  /\ child_index(mcts_list[t], x)
                         \in maximal_children(mcts_list[t], mcts_list[t][x].parent)
                  /\ \A i \in maximal_children(mcts_list[t], mcts_list[t][x].parent) :
                         i <= child_index(mcts_list[t], x)]_vars

\* A selection has just descended into a child whose score was tied with
\* that of a sibling.
C11_Witness ==
    \E t \in Trees :
        /\ leaf[t] # 0
        /\ mcts_list[t][leaf[t]].parent # 0
        /\ Cardinality(maximal_children(mcts_list[t],
                                         mcts_list[t][leaf[t]].parent)) >= 2

\* The value the request at batch index i is to backpropagate when the
\* evaluator answered with the given kind of output.
slot_reward(kind, i) ==
    IF is_some(requests[i].terminal_reward)
    THEN unwrap(requests[i].terminal_reward)
    ELSE eval_value(kind, i)

\* The requests of the batch, from index i on, whose node is node of tree t
\* or a descendant of it: their number and the sum of their slot rewards.
RECURSIVE batch_visits_through(_, _, _)
batch_visits_through(t, node, i) ==
    IF i > Len(requests) THEN 0
    ELSE (IF requests[i].tree = t
             /\ node \in path_to_root(mcts_list[t], requests[i].node)
          THEN 1 ELSE 0) + batch_visits_through(t, node, i + 1)

RECURSIVE batch_value_through(_, _, _, _)
batch_value_through(t, node, kind, i) ==
    IF i > Len(requests) THEN 0
    ELSE (IF requests[i].tree = t
             /\ node \in path_to_root(mcts_list[t], requests[i].node)
          THEN slot_reward(kind, i) ELSE 0)
         + batch_value_through(t, node, kind, i + 1)

\* C12: when the evaluator has answered a batch, there is one output of the
\* evaluator such that the request at each batch index i has policy slot i
\* written to its node, and every node of every tree gains one visit and
\* the slot reward (cached terminal outcome, else value slot i) of exactly
\* the requests i whose ancestor chain it lies on.
C12_SlotMatched ==
    [][(pc = "evaluate" /\ pc' = "loop") =>
          \E kind \in 0 .. (EvalKinds - 1) :
              /\ \A i \in 1 .. Len(requests) :
                     mcts_list'[requests[i].tree][requests[i].node].state.policy
                        = eval_policy(kind, i)
              /\ \A t \in Trees : \A node \in NodeIds(mcts_list[t]) :
                     /\ mcts_list'[t][node].n
                           = mcts_list[t][node].n + batch_visits_through(t, node, 1)
                     /\ mcts_list'[t][node].w
                           = mcts_list[t][node].w
                               + batch_value_through(t, node, kind, 1)]_vars

\* The evaluator has answered a batch of at least three requests that came
\* from two trees, one request with a cached terminal outcome and one
\* without.
C12_Witness ==
    /\ pc = "loop"
    /\ eval_calls = 1
    /\ Len(requests) >= 3
    /\ \E i, j \in 1 .. Len(requests) :
          /\ requests[i].tree # requests[j].tree
          /\ is_some(requests[i].terminal_reward)
          /\ ~is_some(requests[j].terminal_reward)

\* The batch indices of the requests whose node is node of tree t.
request_slots(t, node) ==
    {i \in 1 .. Len(requests) : requests[i].tree = t /\ requests[i].node = node}

\* C13 as claimed: when the evaluator has answered, the node of each request
\* holds the returned policy vector, and every sibling of a request's node
\* (another child of the same parent) has its prior overwritten from the
\* vector returned for a request among its siblings.
C13_SiblingsOverwritten ==
    [][(pc = "evaluate" /\ pc' = "loop") =>
          \E kind \in 0 .. (EvalKinds - 1) :
              \A i \in 1 .. Len(requests) :
                  LET t == requests[i].tree
                      node == requests[i].node
                      tree == mcts_list[t]
                  IN  /\ mcts_list'[t][node].state.policy = eval_policy(kind, i)
                      /\ \A s \in NodeIds(tree) \ {node} :
                             tree[s].parent = tree[node].parent =>
                                 \E j \in 1 .. Len(requests) :
                                     /\ requests[j].tree = t
                                     /\ requests[j].node # s
                                     /\ tree[requests[j].node].parent = tree[s].parent
                                     /\ mcts_list'[t][s].p
                                           = eval_policy(kind, j)[unwrap(tree[s].action)]]_vars

\* C13 amended: when the evaluator has answered, the node of each request
\* holds the returned policy vector as its state's policy; a node whose
\* parent is the node of request i has its prior overwritten with the entry
\* of policy slot i for its action; every other node, the request's node
\* and its siblings included, keeps its prior.
C13_ChildrenOverwritten ==
    [][(pc = "evaluate" /\ pc' = "loop") =>
          \E kind \in 0 .. (EvalKinds - 1) :
              /\ \A i \in 1 .. Len(requests) :
                     mcts_list'[requests[i].tree][requests[i].node].state.policy
                        = eval_policy(kind, i)
              /\ \A t \in Trees : \A x \in NodeIds(mcts_list[t]) :
                     LET slots == request_slots(t, mcts_list[t][x].parent)
                     IN  /\ Cardinality(slots) <= 1
                         /\ \A i \in slots :
                                mcts_list'[t][x].p
                                   = eval_policy(kind, i)[unwrap(mcts_list[t][x].action)]
                         /\ slots = {} =>
                                mcts_list'[t][x].p = mcts_list[t][x].p]_vars

\* The evaluator has answered a batch with a request whose node had a
\* sibling and a child of its own when the answer came.
C13_Witness ==
    /\ pc = "loop"
    /\ eval_calls = 1
    /\ \E i \in 1 .. Len(requests) :
          LET tree == mcts_list[requests[i].tree]
              node == requests[i].node
          IN  /\ Len(tree[node].children) >= 1
              /\ Len(tree[tree[node].parent].children) >= 2

\* The requests of the batch whose node is a child of node q of tree t.
requests_under(t, q) ==
    {i \in 1 .. Len(requests) :
        requests[i].tree = t /\ mcts_list[t][requests[i].node].parent = q}

is_evaluator_entry(t, x) ==
    \E kind \in 0 .. (EvalKinds - 1) : \E i \in 1 .. (NumTrees * MaxBatch) :
        mcts_list[t][x].p = eval_policy(kind, i)[unwrap(mcts_list[t][x].action)]

\* The nodes of tree t whose prior the selection that returned leaf[t] has
\* scored: the children of the nodes the descent went through.
scored_by_selection(t) ==
    {x \in NodeIds(mcts_list[t]) \ {1} :
        mcts_list[t][x].parent \in path_to_root(mcts_list[t], leaf[t]) \ {leaf[t]}}

\* C15: a child whose prior a selection scores in a round later than the
\* one that created the child has had its prior overwritten with an
\* evaluator policy entry for its action.
C15_OverwrittenBeforeUse ==
    \A t \in Trees :
        leaf[t] # 0 =>
            \A x \in scored_by_selection(t) :
                born[t][x] < rounds => is_evaluator_entry(t, x)

\* C16: the step that ends an attempt whose selected leaf is terminal adds
\* no node and no child, adds no request, gives the leaf and each of its
\* ancestors exactly one more visit and the leaf's cached outcome z more
\* value, leaves the visits and values of the other nodes alone, and takes
\* exactly one virtual loss off the leaf and none off any other node.
C16_TerminalLeafShortcut ==
    [][\A t \in Trees :
          (/\ leaf[t] # 0
           /\ is_terminal(mcts_list[t][leaf[t]].state)
           /\ leaf'[t] = 0) =>
              LET tree == mcts_list[t]
                  path == path_to_root(tree, leaf[t])
              IN  /\ Len(mcts_list'[t]) = Len(tree)
                  /\ local_requests'[t] = local_requests[t]
                  /\ \A x \in NodeIds(tree) :
                       /\ mcts_list'[t][x].children = tree[x].children
                       /\ mcts_list'[t][x].n
                             = tree[x].n + (IF x \in path THEN 1 ELSE 0)
                       /\ mcts_list'[t][x].w
                             = tree[x].w
                                 + (IF x \in path THEN tree[leaf[t]].state.z ELSE 0)
                       /\ mcts_list'[t][x].v_loss
                             = tree[x].v_loss - (IF x = leaf[t] THEN 1 ELSE 0)]_vars

\* In the first round, before any evaluator call, an attempt has ended at a
\* won leaf below the root: the leaf has its one visit and value 1 from
\* the shortcut alone.
C16_Witness ==
    \E t \in Trees : \E x \in NodeIds(mcts_list[t]) :
        /\ pc = "collect"
        /\ rounds = 1
        /\ leaf[t] = 0
        /\ outcome[t] = "terminal"
        /\ is_terminal(mcts_list[t][x].state)
        /\ mcts_list[t][x].n = 1
        /\ mcts_list[t][x].w = 1
        /\ mcts_list[t][1].n = 1

\* C17: in every reachable state a node whose state is terminal (won or
\* drawn) has no children.
C17_TerminalNeverExpanded ==
    \A t \in Trees : \A x \in NodeIds(mcts_list[t]) :
        is_terminal(mcts_list[t][x].state) => mcts_list[t][x].children = << >>

\* A won node on whose board an empty cell is left has been returned by
\* selection after its own request was answered, in a later round than
\* the one that created it.
C17_Witness ==
    \E t \in Trees : \E x \in NodeIds(mcts_list[t]) :
        /\ is_terminal(mcts_list[t][x].state)
        /\ mcts_list[t][x].state.env.legal_move_count >= 1
        /\ born[t][x] < rounds
        /\ passes[t][x] >= 2
        /\ mcts_list[t][x].children = << >>

\* C19: the step that ends an attempt whose selected leaf is not terminal
\* and has no legal action that is not already one of its children takes
\* exactly one virtual loss off the leaf and changes nothing else: no node
\* or child is added, no request is added, and no node's visit count,
\* value sum, prior or state changes.
C19_NoActionFrame ==
    [][\A t \in Trees :
          (/\ leaf[t] # 0
           /\ ~is_terminal(mcts_list[t][leaf[t]].state)
           /\ available_actions(mcts_list[t], leaf[t]) = {}
           /\ leaf'[t] = 0) =>
              /\ local_requests'[t] = local_requests[t]
              /\ mcts_list'[t]
                    = [mcts_list[t] EXCEPT ![leaf[t]].v_loss = @ - 1]]_vars

\* An attempt has ended without an action at a root both of whose legal
\* moves are children already, one of them visited.
C19_Witness ==
    \E t \in Trees :
        /\ leaf[t] = 0
        /\ outcome[t] = "no_action"
        /\ Len(mcts_list[t][1].children) = 2
        /\ mcts_list[t][1].n >= 1

\* C20: in a game from a new Environment, every place_stone on an empty cell
\* writes the mover's stone at the given index (1 for Black, -1 for White),
\* leaves every other cell as it was and gives the turn to the opponent;
\* Black moves first, so it is Black's turn exactly when the stones on the
\* board are even in number, and Black has as many stones as White or one
\* more.
C20_PlaceStoneAlternates ==
    /\ [](/\ (game.turn = "Black") = (stone_count(game.board) % 2 = 0)
          /\ LET black == Cardinality({c \in Cells : game.board[c] = 1})
                 white == Cardinality({c \in Cells : game.board[c] = -1})
             IN  black = white + (IF game.turn = "Black" THEN 0 ELSE 1))
    /\ [][last' # last \/ game' # game =>
            /\ is_some(last')
            /\ game.board[unwrap(last')] = 0
            /\ game'.board[unwrap(last')] = (IF game.turn = "Black" THEN 1 ELSE -1)
            /\ \A c \in Cells \ {unwrap(last')} : game'.board[c] = game.board[c]
            /\ game'.turn = opponent(game.turn)
            /\ game'.turn # game.turn]_vars

\* Four stones have been placed, the last one by White.
C20_Witness ==
    /\ stone_count(game.board) = 4
    /\ is_some(last)
    /\ game.board[unwrap(last)] = -1
    /\ game.turn = "Black"

\* The requests, over all the workers that share the tree, whose node is x.
request_count(x) ==
    SumSeq([k \in Workers |->
               Cardinality({i \in 1 .. Len(workers[k].requests) :
                               workers[k].requests[i] = x})])

\* C18: with several workers expanding the shared tree, no node has two
\* children for one action and every child is the node of exactly one
\* request; and the step of a worker whose mcts.expand finds the child for
\* its action there already takes one virtual loss off the leaf and changes
\* nothing else of the tree (the child that is there keeps its visit
\* count, value sum, prior and state) and adds no request.
C18_ExpansionRace ==
    /\ [](LET tree == mcts_list[1]
          IN  /\ \A x, y \in NodeIds(tree) \ {1} :
                     (x # y /\ tree[x].parent = tree[y].parent)
                         => tree[x].action # tree[y].action
              /\ \A x \in NodeIds(tree) \ {1} : request_count(x) = 1)
    /\ [][\A k \in Workers :
            (/\ workers[k].pc = "chosen"
             /\ workers'[k].pc = "idle"
             /\ ~expand_succeeds(mcts_list[1], workers[k].leaf,
                                 unwrap(workers[k].action))) =>
                /\ mcts_list'[1]
                      = [mcts_list[1] EXCEPT ![workers[k].leaf].v_loss = @ - 1]
                /\ workers'[k].requests = workers[k].requests]_vars

\* A worker has lost the race for an action to another worker, whose child
\* for that action has been visited since.
C18_Witness ==
    \E k, j \in Workers : \E x \in NodeIds(mcts_list[1]) \ {1} :
        /\ k # j
        /\ workers[k].outcome = "already_expanded"
        /\ workers[k].requests = << >>
        /\ workers[k].pc = "idle"
        /\ workers[j].requests = << x >>
        /\ mcts_list[1][x].n >= 1

\* C21: the status place_stone has returned is the mover's win (BlackWin
\* for a black stone, WhiteWin for a white one) when the placed stone lies
\* in a row of exactly five stones of its colour in one of the four
\* directions, at whatever place in the row; otherwise it is Draw when no
\* cell is legal any more and InProgress when one is.
C21_StatusReturned ==
    is_some(last) =>
        LET index == unwrap(last)
            own == game.board[index]
            five == \E d \in Directions :
                        line_through(game.board, own, index, d, SERIAL_STONE_COUNT)
        IN  result = IF five THEN (IF own = 1 THEN "BlackWin" ELSE "WhiteWin")
                     ELSE IF \A c \in Cells : ~game.legal_moves[c] THEN "Draw"
                     ELSE "InProgress"

\* White has won with a stone placed in the middle of a row of five on the
\* diagonal from left-bottom to right-top.
C21_Witness ==
    /\ is_some(last)
    /\ result = "WhiteWin"
    /\ LET x == unwrap(last) % BOARD_SIZE
           y == unwrap(last) \div BOARD_SIZE
       IN  \A j \in -2 .. 2 :
               /\ on_board(x - j, y + j)
               /\ game.board[cell_at(x - j, y + j)] = -1

\* The virtual loss held in tree t, from node x on.
RECURSIVE v_loss_from(_, _)
v_loss_from(t, x) ==
    IF x > Len(mcts_list[t]) THEN 0
    ELSE mcts_list[t][x].v_loss + v_loss_from(t, x + 1)

\* C22: the phases of a round are strictly ordered.  The evaluator has the
\* batch only when every tree has finished all its attempts; until the
\* evaluator has answered, no prior differs from what it was when the
\* round began (from the placeholder, for a node of this round) and no
\* node of this round has had its policy written or its request
\* backpropagated; a selection starts only in the collecting phase, when
\* every request of the earlier rounds has been backpropagated; and a tree
\* has at most one attempt in flight, which holds the only virtual loss
\* of the tree.
C22_PhasesOrdered ==
    /\ [](/\ pc = "evaluate" =>
                \A t \in Trees : attempt[t] = batch_size /\ leaf[t] = 0
          /\ pc \in {"collect", "evaluate"} =>
                \A t \in Trees : \A x \in NodeIds(mcts_list[t]) \ {1} :
                    IF x \in NodeIds(round_start[t])
                    THEN mcts_list[t][x].p = round_start[t][x].p
                    ELSE /\ mcts_list[t][x].p
                              = placeholder_prior(
                                    mcts_list[t][mcts_list[t][x].parent].state)
                         /\ mcts_list[t][x].state.policy
                              = placeholder_policy(mcts_list[t][x].state.env)
                         /\ ~is_terminal(mcts_list[t][x].state)
                                => passes[t][x] = 0
          /\ \A t \in Trees :
                v_loss_from(t, 1) = (IF leaf[t] # 0 THEN 1 ELSE 0))
    /\ [][\A t \in Trees :
            (leaf[t] = 0 /\ leaf'[t] # 0) =>
                /\ pc = "collect"
                /\ requests = << >>
                /\ eval_calls = 0
                /\ \A x \in NodeIds(mcts_list[t]) \ {1} :
                       born[t][x] < rounds => passes[t][x] >= 1]_vars

\* The batch of a second round, with a request in it, is with the
\* evaluator.
C22_Witness ==
    /\ pc = "evaluate"
    /\ rounds = 2
    /\ Len(requests) >= 1
    /\ \E t \in Trees : Len(round_start[t]) >= 2

(***************************************************************************)
(* C23: the trees of a round do not affect each other.                     *)
(***************************************************************************)
\* Lines 98-154 run by one worker alone: the stone is placed, the child
\* inserted and the request pushed, on the tree and the local request
\* vector the worker holds.
expand_alone(t, tree, pushed, node, action, placed) ==
    IF expand_succeeds(tree, node, action)
    THEN [tree |-> release_v_loss(
                       expand(tree, node, action,
                              BoardState(placed.env, placed.status)), node),
          requests |-> Append(pushed,
                              NNEvalRequest(t, Len(tree) + 1,
                                            terminal_reward_of(placed.status)))]
    ELSE [tree |-> release_v_loss(tree, node), requests |-> pushed]

\* Lines 61-155 run by one worker alone, on the tree with the virtual loss
\* of select_leaf taken at node; action is the action of line 88, None when
\* the attempt ends before one is chosen.
attempt_from_leaf(t, tree, pushed, node, action) ==
    IF is_terminal(tree[node].state)
    THEN [tree |-> release_v_loss(propagate(tree, node, tree[node].state.z), node),
          requests |-> pushed]
    ELSE IF ~is_some(action)
    THEN [tree |-> release_v_loss(tree, node), requests |-> pushed]
    ELSE expand_alone(t, tree, pushed, node, unwrap(action),
                      place_stone(tree[node].state.env, unwrap(action)))

\* Lines 49-155 run by one worker alone: the body of the loop for the
\* attempt that drew choice.
attempt_alone(t, held, choice) ==
    attempt_from_leaf(t, take_v_loss(held.tree, choice.leaf), held.requests,
                      choice.leaf, choice.action)

\* The attempts of the worker of tree t, one after the other with no other
\* worker running, from the tree start and no request.
attempts_alone(t, start, drawn) ==
    LET after[n \in 0 .. Len(drawn)] ==
            IF n = 0 THEN [tree |-> start, requests |-> << >>]
            ELSE CHOOSE held \in {attempt_alone(t, before, drawn[n]) :
                                      before \in {after[n - 1]}} : TRUE
    IN  after[Len(drawn)]

\* Lines 206-227 for the requests of tree t only, each at its slot of the
\* batch, on a list that holds no other tree.
RECURSIVE results_alone(_, _, _, _, _)
results_alone(trees, t, reqs, kind, batch_index) ==
    IF batch_index > Len(reqs) THEN trees
    ELSE results_alone(IF reqs[batch_index].tree = t
                       THEN apply_result(trees, reqs[batch_index], kind, batch_index)
                       ELSE trees,
                       t, reqs, kind, batch_index + 1)

only_tree(t) == [u \in Trees |-> IF u = t THEN mcts_list[t] ELSE << >>]

\* C23: trees processed in a round do not affect each other.  Every
\* request a worker holds refers to a node of the worker's own tree.  A step
\* of a worker changes its own tree only.  When the workers are done, each
\* tree and each worker's requests are what the worker's attempts of the
\* round give when they are run alone from the tree's state at the start of
\* the round, however the steps of the other workers were interleaved with
\* them.  When the evaluator answers, each tree becomes what the requests of
\* that tree alone, at their slots of the batch, make of it.
C23_TreesIndependent ==
    /\ [](\A t \in Trees :
            \A i \in 1 .. Len(local_requests[t]) :
                /\ local_requests[t][i].tree = t
                /\ local_requests[t][i].node \in NodeIds(mcts_list[t]))
    /\ []((pc \in {"collect", "evaluate"} /\ AllCollected) =>
            \A t \in Trees :
                LET alone == attempts_alone(t, round_start[t], choices[t])
                IN  /\ local_requests[t] = alone.requests
                    /\ mcts_list[t] = alone.tree)
    /\ [][/\ pc = "collect" /\ pc' = "collect" =>
                \A t, u \in Trees :
                    (t # u /\ mcts_list'[t] # mcts_list[t]) =>
                        /\ mcts_list'[u] = mcts_list[u]
                        /\ local_requests'[u] = local_requests[u]
                        /\ leaf'[u] = leaf[u]
          /\ pc = "evaluate" /\ pc' = "loop" =>
                \E kind \in 0 .. (EvalKinds - 1) :
                    \A t \in Trees :
                        mcts_list'[t] =
                            results_alone(only_tree(t), t, requests, kind, 1)[t]]_vars

\* The evaluator has answered a batch with requests of two trees, each
\* of which grew in the round.
C23_Witness ==
    /\ pc = "loop"
    /\ eval_calls = 1
    /\ \E i, j \in 1 .. Len(requests) : requests[i].tree # requests[j].tree
    /\ \A t \in Trees : Len(mcts_list[t]) > Len(round_start[t])

(***************************************************************************)
(* C24: the requests of a round.                                           *)
(***************************************************************************)
\* The requests of the batch that are for node id of tree t or for a node
\* below it.
requests_through(t, id) ==
    {i \in 1 .. Len(requests) :
        /\ requests[i].tree = t
        /\ id \in path_to_root(mcts_list[t], requests[i].node)}

expanded_nodes(t) == {id \in NodeIds(mcts_list[t]) : mcts_list[t][id].parent # 0}

\* C25: the outcome cached on an expanded child and carried by its request
\* is expressed from one player's viewpoint at every node of the tree: a
\* draw is cached as 0, a child still in progress has a request without a
\* terminal reward, the request of a child that ended the game carries the
\* outcome cached on the child, and a win of Black and a win of White that
\* lie in one tree do not have the same cached outcome.
C25_FixedPerspective ==
    \A t \in Trees :
        /\ \A id \in expanded_nodes(t) :
               mcts_list[t][id].state.status = "Draw" => mcts_list[t][id].state.z = 0
        /\ \A i \in 1 .. Len(local_requests[t]) :
               LET state == mcts_list[t][local_requests[t][i].node].state
               IN  local_requests[t][i].terminal_reward =
                       IF state.status = "InProgress" THEN None ELSE Some(state.z)
        /\ \A a, b \in expanded_nodes(t) :
               (/\ mcts_list[t][a].state.status = "BlackWin"
                /\ mcts_list[t][b].state.status = "WhiteWin")
                   => mcts_list[t][a].state.z # mcts_list[t][b].state.z

(***************************************************************************)
(* C26: a line longer than five.                                           *)
(***************************************************************************)
\* C26: a placement that makes a line of six or more own stones through
\* the placed cell, and no line of exactly five, is not reported as a win:
\* place_stone returns Draw when the board is full and InProgress otherwise.
C26_OverlineNotWin ==
    is_some(last) =>
        LET index == unwrap(last)
            own == game.board[index]
            longer == \E d \in Directions :
                          \E len \in (SERIAL_STONE_COUNT + 1) .. BOARD_SIZE :
                              line_through(game.board, own, index, d, len)
            five == \E d \in Directions :
                        line_through(game.board, own, index, d, SERIAL_STONE_COUNT)
        IN  (longer /\ ~five) =>
                result = IF \A c \in Cells : game.board[c] # 0 THEN "Draw"
                         ELSE "InProgress"

\* A stone was placed in a line and made it six long, on a board with
\* cells left.
C26_Witness ==
    /\ is_some(last)
    /\ result = "InProgress"
    /\ \E c \in Cells : game.board[c] = 0
    /\ \E d \in Directions :
           line_through(game.board, game.board[unwrap(last)], unwrap(last), d,
                        SERIAL_STONE_COUNT + 1)
    /\ \A d \in Directions :
           ~line_through(game.board, game.board[unwrap(last)], unwrap(last), d,
                         SERIAL_STONE_COUNT)

(***************************************************************************)
(* C27: legal_moves and legal_move_count.                                  *)
(***************************************************************************)
\* C27: after place_stone calls on legal cells, legal_move_count is the
\* number of true entries of legal_moves and the number of empty cells of
\* the board, and a cell is legal exactly when it is empty; so the
\* placement that fills the board, the BOARD_SIZE * BOARD_SIZE-th at the
\* latest, returns a win or a draw.
C27_LegalMovesCounted ==
    /\ game.legal_move_count = Cardinality({c \in Cells : game.legal_moves[c]})
    /\ game.legal_move_count = Cardinality({c \in Cells : game.board[c] = 0})
    /\ \A c \in Cells : game.legal_moves[c] <=> game.board[c] = 0
    /\ stone_count(game.board) + game.legal_move_count = BOARD_SIZE * BOARD_SIZE
    /\ (is_some(last) /\ result = "InProgress") => stone_count(game.board) < BOARD_SIZE * BOARD_SIZE
    /\ (is_some(last) /\ stone_count(game.board) = BOARD_SIZE * BOARD_SIZE) =>
           result \in {"BlackWin", "WhiteWin", "Draw"}

\* The third placement on legal cells from Root3Env has filled the board
\* and returned Draw.
C27_Witness ==
    /\ is_some(last)
    /\ stone_count(game.board) = BOARD_SIZE * BOARD_SIZE
    /\ game.legal_move_count = 0
    /\ result = "Draw"
    /\ game.board[1] = -1 /\ game.board[4] # 0 /\ game.board[28] # 0

(***************************************************************************)
(* C28: the moves of the training loops.                                   *)
(***************************************************************************)
\* C28: every stone the training loops place, by a random move or by the
\* network's argmax, is placed on a cell that is legal and empty at that
\* moment; so no stone is overwritten (the stones on the board are as many
\* as the placements of the game) and legal_move_count does not drop below
\* zero.
C28_PlacedOnLegalCells ==
    /\ on_legal
    /\ stone_count(game.board) = plies(game)
    /\ game.legal_move_count >= 0

(***************************************************************************)
(* C29: warm_up returns.                                                   *)
(***************************************************************************)
\* C29: warm_up eventually returns whatever the replay memory holds when it
\* is called; when it returns the memory holds exactly 50_000 transitions
\* (WARM_UP_SIZE); and each game it plays goes on while place_stone returns
\* InProgress and ends at the first placement that returns a win or a draw,
\* after which a new game begins.
C29_WarmUpReturns ==
    /\ (called = "warm_up") ~> (train_pc = "returned")
    /\ []((called = "warm_up" /\ train_pc = "returned") =>
              replay_memory = WARM_UP_SIZE)
    /\ [][(called = "warm_up" /\ train_pc' = "running") =>
              IF result' = "InProgress"
              THEN plies(game') = plies(game) + 1
              ELSE game' = NewEnvironment]_vars

====
